---- MODULE Spec2Model ----
(***************************************************************************)
(* Model of the battery electrolyte design backend: the OrchestratorAgent  *)
(* (query classification, routing, the four-stage design chain), the       *)
(* ExperimentPlanningAgent and the PerformancePredictionAgent.             *)
(*                                                                         *)
(* Conventions.                                                            *)
(*  - Python dicts are TLA+ functions with string domains; a key that the  *)
(*    dict lacks is absent from the DOMAIN (Get models dict.get).          *)
(*  - Queries are real strings; `in', lower(), strip(), startswith() are   *)
(*    computed character by character.                                     *)
(*  - Decimal numbers are scaled integers: scores and confidences in       *)
(*    hundredths, concentrations in hundredths, metric values as noted.    *)
(*  - Free text produced by the language model (greeting text, summaries,  *)
(*    rationales) is not part of the state; the calls that produce it and  *)
(*    whether they raise are.                                              *)
(***************************************************************************)
EXTENDS Integers, Sequences, FiniteSets, TLC

\* ------------------------------------------------------------------ bounds

\* Longest query, in words of the vocabulary.
MaxQueryWords == 2

\* ------------------------------------------------------------- dict helpers

Has(d, k) == k \in DOMAIN d

Get(d, k, default) == IF k \in DOMAIN d THEN d[k] ELSE default

\* ----------------------------------------------------------- string helpers

UpperLetters == <<"A","B","C","D","E","F","G","H","I","J","K","L","M",
                  "N","O","P","Q","R","S","T","U","V","W","X","Y","Z">>

LowerLetters == <<"a","b","c","d","e","f","g","h","i","j","k","l","m",
                  "n","o","p","q","r","s","t","u","v","w","x","y","z">>

CharAt(s, i) == SubSeq(s, i, i)

LowerChar(c) ==
    IF \E i \in 1..26 : UpperLetters[i] = c
    THEN LowerLetters[CHOOSE i \in 1..26 : UpperLetters[i] = c]
    ELSE c

UpperChar(c) ==
    IF \E i \in 1..26 : LowerLetters[i] = c
    THEN UpperLetters[CHOOSE i \in 1..26 : LowerLetters[i] = c]
    ELSE c

RECURSIVE Lower(_)
Lower(s) == IF Len(s) = 0 THEN ""
            ELSE LowerChar(CharAt(s, 1)) \o Lower(SubSeq(s, 2, Len(s)))

RECURSIVE Upper(_)
Upper(s) == IF Len(s) = 0 THEN ""
            ELSE UpperChar(CharAt(s, 1)) \o Upper(SubSeq(s, 2, Len(s)))

RECURSIVE LStrip(_)
LStrip(s) == IF Len(s) > 0 /\ CharAt(s, 1) = " "
             THEN LStrip(SubSeq(s, 2, Len(s))) ELSE s

RECURSIVE RStrip(_)
RStrip(s) == IF Len(s) > 0 /\ CharAt(s, Len(s)) = " "
             THEN RStrip(SubSeq(s, 1, Len(s) - 1)) ELSE s

Strip(s) == RStrip(LStrip(s))

\* Python's  p in s  on strings.
Contains(p, s) ==
    \E i \in 1..(Len(s) - Len(p) + 1) : SubSeq(s, i, i + Len(p) - 1) = p

StartsWith(s, p) == Len(p) <= Len(s) /\ SubSeq(s, 1, Len(p)) = p

\* any(kw in s for kw in kws), kws a tuple of strings.
AnyIn(kws, s) == \E i \in 1..Len(kws) : Contains(kws[i], s)

\* ---------------------------------------------------------------- queries

Words == {"Hello", "help", "design", "Zinc", "sodium", "magnesium",
          "solid-state", "lithium", "aqueous"}

RECURSIVE QueriesOfLen(_)
QueriesOfLen(n) ==
    IF n = 1 THEN Words
    ELSE { q \o " " \o w : q \in QueriesOfLen(n - 1), w \in Words }

Queries == UNION { QueriesOfLen(n) : n \in 1..MaxQueryWords }

\* ------------------------------------------------------ query type constants

QUERY_TYPE_GREETING == "greeting"
QUERY_TYPE_HELP == "help"
QUERY_TYPE_OFF_TOPIC == "off_topic"
QUERY_TYPE_ELECTROLYTE_DESIGN == "electrolyte_design"
QUERY_TYPE_LITERATURE_ONLY == "literature_search"
QUERY_TYPE_PROPERTY_CHECK == "property_check"

QueryTypes == {QUERY_TYPE_GREETING, QUERY_TYPE_HELP, QUERY_TYPE_OFF_TOPIC,
               QUERY_TYPE_ELECTROLYTE_DESIGN, QUERY_TYPE_LITERATURE_ONLY,
               QUERY_TYPE_PROPERTY_CHECK}

\* --------------------------------------------------------------- the state

VARIABLES
    llm_service,           \* TRUE iff OrchestratorAgent.llm_service is set
    pc,                    \* position of OrchestratorAgent.process
    query,                 \* input_data["query"]
    user_materials_input,  \* self._user_materials_input
    classification,        \* the record _classify_query returned
    requirements,          \* the record _parse_query returned
    literature_result,
    property_result,
    planning_result,
    experiment_plans,
    all_predictions,
    agent_responses,
    result,                \* the record process returned
    exception,             \* the exception process propagated ("" if none)
    invoked,               \* responders invoked by this request, in order
    planner_input,         \* what the planner was called with
    last_llm,              \* the latest backend call and its response
    pred_call,             \* a direct call of PerformancePredictionAgent.process
    lit_call,              \* a direct call of LiteratureRAGAgent.process
    prop_call,             \* a direct call of PropertyCompatibilityAgent.process
    conv_call,             \* a direct call of _convert_formulation_to_dict
    vector_store,          \* DocumentService.vector_store (None or its chunks)
    simple_store,          \* DocumentService.simple_store
    pending_documents,     \* main.pending_documents
    indexed_documents,     \* main.indexed_documents
    response,              \* what the latest document endpoint answered
    parse_call,            \* a direct call of OrchestratorAgent._parse_query
    requests               \* the requests in flight on the shared coordinator

vars == <<llm_service, pc, query, user_materials_input, classification,
          requirements, literature_result, property_result, planning_result,
          experiment_plans, all_predictions, agent_responses, result,
          exception, invoked, planner_input, last_llm, pred_call,
          lit_call, prop_call, conv_call, vector_store, simple_store,
          pending_documents, indexed_documents, response, parse_call,
          requests>>

\* The state of one request inside OrchestratorAgent.process.
orchestrator_state ==
    <<llm_service, pc, query, user_materials_input, classification,
      requirements, literature_result, property_result, planning_result,
      experiment_plans, all_predictions, agent_responses, result,
      exception, invoked, planner_input, last_llm>>

\* The direct calls other than the predictor's.
other_calls == <<lit_call, prop_call, conv_call>>

\* The state of the document endpoints and of the DocumentService.
document_state ==
    <<vector_store, simple_store, pending_documents, indexed_documents, response>>

\* The direct call of the requirement extractor and the requests that share
\* one coordinator.
extractor_state == <<parse_call, requests>>

EmptyDict == [k \in {} |-> 0]

\* Python's None where a store object is expected.
None == [present |-> FALSE]

NoCall == [call |-> "", resp |-> [kind |-> ""]]

\* The requests that may be in flight at once on the one OrchestratorAgent
\* the server creates.
RequestIds == {1, 2}

NoRequests == [r \in RequestIds |-> [pc |-> "idle"]]

Call(name, resp) == [call |-> name, resp |-> resp]

\* ---------------------------------------------------- the language model

\* LLMService.generate: the call returns text or raises.  A response is
\* described by what the parsers of the callers can make of it.
\*   kind "raise"   generate raised
\*   kind "none"    the completion's content is None
\*   kind "text"    prose holding no JSON
\*   kind "json"    a JSON document, value = the parsed document
\*   kind "fenced"  a JSON document inside a ``` block
\*   kind "prose_json"  prose around a JSON document
LLMRaise == [kind |-> "raise"]

\* A JSON document that is not an object (a list, a number, a string).
NonDict == [nondict |-> TRUE]

IsDict(v) == ~Has(v, "nondict")

\* The JSON objects a classification response may hold: the model is asked
\* for query_type, confidence, reason and should_delegate and may return
\* any of them, or none, with any value.
ClassifyJsonValues ==
    { qt @@ cf @@ sd :
        qt \in { ("query_type" :> t) : t \in QueryTypes \cup {"chitchat"} }
                 \cup {EmptyDict},
        cf \in { ("confidence" :> 80), EmptyDict },
        sd \in { ("should_delegate" :> b) : b \in BOOLEAN } \cup {EmptyDict} }
    \cup {NonDict}

ClassifyResponses ==
    { LLMRaise, [kind |-> "none"], [kind |-> "text"], [kind |-> "prose_json"] }
    \cup { [kind |-> k, value |-> v] :
             k \in {"json", "fenced"}, v \in ClassifyJsonValues }

\* ------------------------------------------------------------ the classifier

greetings == <<"hello", "hi", "hey", "good morning", "good afternoon",
               "good evening", "howdy", "greetings", "what's up", "sup", "yo">>

help_patterns == <<"help", "what can you do", "how do i use", "what is this",
                   "how does this work", "capabilities", "features">>

Returned(v) == [ok |-> TRUE, value |-> v]

Raised(e) == [ok |-> FALSE, exc |-> e]

\* OrchestratorAgent._llm_classify_query: the response is stripped, a
\* leading ``` fence is removed, and json.loads decides.
_llm_classify_query(resp) ==
    CASE resp.kind = "raise" -> Raised("LLMError")
      [] resp.kind = "none" -> Raised("AttributeError")
      [] resp.kind \in {"json", "fenced"} -> Returned(resp.value)
      [] OTHER ->
            Returned([query_type |-> QUERY_TYPE_ELECTROLYTE_DESIGN,
                      confidence |-> 60,
                      should_delegate |-> TRUE,
                      reason |-> "Classification parsing failed, defaulting to design workflow"])

GreetingHeuristic(q) ==
    LET query_lower == Strip(Lower(q))
    IN  \/ \E i \in 1..Len(greetings) : query_lower = greetings[i]
        \/ \E i \in 1..Len(greetings) : StartsWith(query_lower, greetings[i])

HelpHeuristic(q) == AnyIn(help_patterns, Strip(Lower(q)))

\* A classifier that consults the backend before its heuristics.
CallsLLMBeforeHeuristics(q, llm) == llm

\* Whether _classify_query reaches the model-based call.
CallsLLMClassify(q, llm) == ~GreetingHeuristic(q) /\ ~HelpHeuristic(q) /\ llm

\* OrchestratorAgent._classify_query.  resp is the backend's response to the
\* classification call, read only when the call is made.
_classify_query(q, llm, resp) ==
    IF GreetingHeuristic(q)
    THEN [query_type |-> QUERY_TYPE_GREETING, confidence |-> 95,
          should_delegate |-> FALSE, reason |-> "Simple greeting detected"]
    ELSE IF HelpHeuristic(q)
    THEN [query_type |-> QUERY_TYPE_HELP, confidence |-> 90,
          should_delegate |-> FALSE, reason |-> "Help request detected"]
    ELSE IF llm /\ _llm_classify_query(resp).ok
    THEN _llm_classify_query(resp).value
    ELSE [query_type |-> QUERY_TYPE_ELECTROLYTE_DESIGN, confidence |-> 70,
          should_delegate |-> TRUE,
          reason |-> "Defaulting to electrolyte design workflow"]


\* ------------------------------------------------ the requirement extractor

\* [x for x in xs if x in s]: the entries of the tuple xs, in order, whose
\* lower-case form occurs in s.
RECURSIVE Detected(_, _)
Detected(xs, s) ==
    IF Len(xs) = 0 THEN <<>>
    ELSE (IF Contains(Lower(Head(xs)), s) THEN <<Head(xs)>> ELSE <<>>)
         \o Detected(Tail(xs), s)

RECURSIVE MapUpper(_)
MapUpper(xs) ==
    IF Len(xs) = 0 THEN <<>> ELSE <<Upper(Head(xs))>> \o MapUpper(Tail(xs))

Range(xs) == { xs[i] : i \in 1..Len(xs) }

known_materials == <<
    <<"dmso", "DMSO">>, <<"acetonitrile", "ACN">>, <<"acn", "ACN">>,
    <<"propylene carbonate", "PC">>, <<"ethylene carbonate", "EC">>,
    <<"dimethyl carbonate", "DMC">>, <<"diethyl carbonate", "DEC">>,
    <<"ethyl methyl carbonate", "EMC">>, <<"gamma-butyrolactone", "GBL">>,
    <<"gbl", "GBL">>, <<"sulfolane", "Sulfolane">>, <<"dmf", "DMF">>,
    <<"dimethylformamide", "DMF">>, <<"nmp", "NMP">>, <<"thf", "THF">>,
    <<"tetrahydrofuran", "THF">>, <<"dme", "DME">>, <<"dimethoxyethane", "DME">>,
    <<"diglyme", "Diglyme">>, <<"triglyme", "Triglyme">>,
    <<"tetraglyme", "Tetraglyme">>, <<"tegdme", "TEGDME">>, <<"dol", "DOL">>,
    <<"dioxolane", "DOL">>, <<"water", "H2O">>, <<"h2o", "H2O">>,
    <<"ionic liquid", "IL">>,
    <<"lipf6", "LiPF6">>, <<"lifsi", "LiFSI">>, <<"litfsi", "LiTFSI">>,
    <<"libf4", "LiBF4">>, <<"libob", "LiBOB">>, <<"lidfob", "LiDFOB">>,
    <<"liclo4", "LiClO4">>, <<"lino3", "LiNO3">>, <<"liasf6", "LiAsF6">>,
    <<"napf6", "NaPF6">>, <<"natfsi", "NaTFSI">>, <<"nafsi", "NaFSI">>,
    <<"naclo4", "NaClO4">>, <<"nabf4", "NaBF4">>,
    <<"znso4", "ZnSO4">>, <<"zinc sulfate", "ZnSO4">>, <<"zncl2", "ZnCl2">>,
    <<"zinc chloride", "ZnCl2">>, <<"zn(cf3so3)2", "Zn(CF3SO3)2">>,
    <<"zinc triflate", "Zn(CF3SO3)2">>, <<"zn(tfsi)2", "Zn(TFSI)2">>,
    <<"zn(otf)2", "Zn(OTf)2">>, <<"znf2", "ZnF2">>,
    <<"mgcl2", "MgCl2">>, <<"mg(tfsi)2", "Mg(TFSI)2">>,
    <<"mgtfsi2", "Mg(TFSI)2">>, <<"mg(cb11h12)2", "Mg(CB11H12)2">>,
    <<"vc", "VC">>, <<"vinylene carbonate", "VC">>, <<"fec", "FEC">>,
    <<"fluoroethylene carbonate", "FEC">>, <<"ps", "PS">>,
    <<"propane sultone", "PS">>, <<"dtd", "DTD">>, <<"es", "ES">>,
    <<"ethylene sulfite", "ES">>, <<"peg", "PEG">>,
    <<"polyethylene glycol", "PEG">>, <<"pvdf", "PVDF">>, <<"tte", "TTE">>,
    <<"btfe", "BTFE">>,
    <<"llzo", "LLZO">>, <<"lgps", "LGPS">>, <<"lipon", "LiPON">>,
    <<"nasicon", "NASICON">>, <<"lisicon", "LISICON">>, <<"peo", "PEO">>,
    <<"polyethylene oxide", "PEO">> >>

\* The rows of known_materials whose pattern occurs in the text.
PatternHits(query_lower) ==
    { i \in 1..Len(known_materials) : Contains(known_materials[i][1], query_lower) }

\* The first pass of _extract_user_materials: the canonical names of the
\* known materials whose pattern occurs in the text, each once, in table
\* order.  hits are the rows still to visit.
RECURSIVE KnownMaterialsIn(_, _)
KnownMaterialsIn(hits, materials) ==
    IF hits = {} THEN materials
    ELSE LET i == CHOOSE x \in hits : \A y \in hits : x <= y
         IN  KnownMaterialsIn(hits \ {i},
                IF known_materials[i][2] \notin Range(materials)
                THEN Append(materials, known_materials[i][2])
                ELSE materials)

\* ---- the two regular-expression passes of _extract_user_materials

\* The character at position i of s, "" outside the string.
At(s, i) == IF i >= 1 /\ i <= Len(s) THEN SubSeq(s, i, i) ELSE ""

IsUpper(c) == \E k \in 1..26 : UpperLetters[k] = c

IsLower(c) == \E k \in 1..26 : LowerLetters[k] = c

IsDigit(c) == c \in {"0", "1", "2", "3", "4", "5", "6", "7", "8", "9"}

\* \w, \s and \b of Python's re on ASCII text.
IsWord(c) == IsUpper(c) \/ IsLower(c) \/ IsDigit(c) \/ c = "_"

IsSpace(c) == c = " "

Boundary(s, i) == IsWord(At(s, i - 1)) # IsWord(At(s, i))

\* The length of the longest run of digits, word characters or blanks that
\* starts at position i.
RECURSIVE DigitRun(_, _)
DigitRun(s, i) == IF IsDigit(At(s, i)) THEN 1 + DigitRun(s, i + 1) ELSE 0

RECURSIVE WordRun(_, _)
WordRun(s, i) == IF IsWord(At(s, i)) THEN 1 + WordRun(s, i + 1) ELSE 0

RECURSIVE SpaceRun(_, _)
SpaceRun(s, i) == IF IsSpace(At(s, i)) THEN 1 + SpaceRun(s, i + 1) ELSE 0

\* The position of the first ")" at or after i, 0 when there is none.
RECURSIVE FirstClose(_, _)
FirstClose(s, i) ==
    IF i > Len(s) THEN 0
    ELSE IF At(s, i) = ")" THEN i ELSE FirstClose(s, i + 1)

\* formula_pattern,
\*   \b([A-Z][a-z]?(?:\d*[A-Z][a-z]?)*(?:\d+)?(?:\([^)]+\)\d*)?)\b
\* matched as the backtracking matcher tries it: every repetition takes the
\* longest run first and gives characters back one at a time.  Each operator
\* answers the position after the match of the rest of the pattern from
\* position i on, 0 when the rest does not match there.

\* \d* of the bracket group, having taken k digits from position j, then \b
RECURSIVE TailDDigits(_, _, _)
TailDDigits(s, j, k) ==
    IF Boundary(s, j + k) THEN j + k
    ELSE IF k = 0 THEN 0 ELSE TailDDigits(s, j, k - 1)

\* (?:\([^)]+\)\d*)? then \b
TailD(s, i) ==
    LET close == FirstClose(s, i + 1)
        group == IF At(s, i) = "(" /\ close >= i + 2
                 THEN TailDDigits(s, close + 1, DigitRun(s, close + 1))
                 ELSE 0
    IN  IF group # 0 THEN group
        ELSE IF Boundary(s, i) THEN i ELSE 0

\* (?:\d+)? having taken k digits, then the rest
RECURSIVE TailCDigits(_, _, _)
TailCDigits(s, i, k) ==
    IF k = 0 THEN TailD(s, i)
    ELSE LET r == TailD(s, i + k)
         IN  IF r # 0 THEN r ELSE TailCDigits(s, i, k - 1)

TailC(s, i) == TailCDigits(s, i, DigitRun(s, i))

RECURSIVE TailB(_, _)
RECURSIVE TailBLetter(_, _)
RECURSIVE TailBDigits(_, _, _)

\* [A-Z][a-z]? at position p, then (?:\d*[A-Z][a-z]?)* and the rest
TailBLetter(s, p) ==
    IF ~IsUpper(At(s, p)) THEN 0
    ELSE LET r == IF IsLower(At(s, p + 1)) THEN TailB(s, p + 2) ELSE 0
         IN  IF r # 0 THEN r ELSE TailB(s, p + 1)

\* \d* of one more repetition, having taken k digits
TailBDigits(s, i, k) ==
    LET r == TailBLetter(s, i + k)
    IN  IF r # 0 THEN r
        ELSE IF k = 0 THEN 0 ELSE TailBDigits(s, i, k - 1)

\* (?:\d*[A-Z][a-z]?)* then the rest
TailB(s, i) ==
    LET r == TailBDigits(s, i, DigitRun(s, i))
    IN  IF r # 0 THEN r ELSE TailC(s, i)

FormulaMatchAt(s, i) == IF Boundary(s, i) THEN TailBLetter(s, i) ELSE 0

\* re.findall(formula_pattern, query), scanning from position i.
RECURSIVE FormulaMatches(_, _)
FormulaMatches(s, i) ==
    IF i > Len(s) THEN <<>>
    ELSE LET e == FormulaMatchAt(s, i)
         IN  IF e # 0 THEN <<SubSeq(s, i, e - 1)>> \o FormulaMatches(s, e)
             ELSE FormulaMatches(s, i + 1)

common_words == {"In", "If", "Is", "It", "An", "As", "At", "Be", "By", "Do", "Go",
                 "He", "Me", "My", "No", "Of", "On", "Or", "So", "To", "Up", "Us",
                 "We"}

\* for match in matches: keep the tokens of two characters or more that are
\* no common word and not yet in the list.
RECURSIVE AddFormulas(_, _)
AddFormulas(materials, matches) ==
    IF Len(matches) = 0 THEN materials
    ELSE AddFormulas(
            IF /\ Len(Head(matches)) >= 2
               /\ Head(matches) \notin common_words
               /\ Head(matches) \notin Range(materials)
            THEN Append(materials, Head(matches)) ELSE materials,
            Tail(matches))

concentration_units == <<"M", "m", "mol", "wt%", "vol%", "%">>

\* (M|m|mol|wt%|vol%|%)\s+(\w+) at position p: the alternatives in their
\* order from the k-th on; the blanks and the word take their longest run,
\* no shorter one being followed by what the pattern wants next.
RECURSIVE UnitAndMaterial(_, _, _)
UnitAndMaterial(s, p, k) ==
    IF k > Len(concentration_units) THEN [end |-> 0]
    ELSE LET unit == concentration_units[k]
             q == p + Len(unit)
             start == q + SpaceRun(s, q)
         IN  IF /\ q - 1 <= Len(s)
                /\ SubSeq(s, p, q - 1) = unit
                /\ start > q
                /\ WordRun(s, start) >= 1
             THEN [end |-> start + WordRun(s, start),
                   material |-> SubSeq(s, start, start + WordRun(s, start) - 1)]
             ELSE UnitAndMaterial(s, p, k + 1)

\* conc_pattern,  (\d+(?:\.\d+)?)\s*(M|m|mol|wt%|vol%|%)\s+(\w+),  at
\* position i.
ConcMatchAt(s, i) ==
    LET digits == DigitRun(s, i)
        fraction == IF At(s, i + digits) = "." THEN DigitRun(s, i + digits + 1) ELSE 0
        number_end == IF fraction >= 1 THEN i + digits + 1 + fraction ELSE i + digits
    IN  IF digits = 0 THEN [end |-> 0]
        ELSE UnitAndMaterial(s, number_end + SpaceRun(s, number_end), 1)

\* The third group of each match of re.findall(conc_pattern, query).
RECURSIVE ConcMatches(_, _)
ConcMatches(s, i) ==
    IF i > Len(s) THEN <<>>
    ELSE LET m == ConcMatchAt(s, i)
         IN  IF m.end # 0 THEN <<m.material>> \o ConcMatches(s, m.end)
             ELSE ConcMatches(s, i + 1)

RECURSIVE AddConcentrationMaterials(_, _)
AddConcentrationMaterials(materials, matches) ==
    IF Len(matches) = 0 THEN materials
    ELSE AddConcentrationMaterials(
            IF Head(matches) \notin Range(materials) /\ Len(Head(matches)) >= 2
            THEN Append(materials, Head(matches)) ELSE materials,
            Tail(matches))

\* OrchestratorAgent._extract_user_materials: the known materials found in
\* the text, then the chemical formula tokens, then the words that follow a
\* concentration.
_extract_user_materials(text) ==
    AddConcentrationMaterials(
        AddFormulas(KnownMaterialsIn(PatternHits(Lower(text)), <<>>),
                    FormulaMatches(text, 1)),
        ConcMatches(text, 1))

\* An extractor that takes every query for a lithium-ion one.
AlwaysLithiumIon(query_lower) == "lithium-ion"

\* The battery chemistry branch of _parse_query.
ParseBatteryType(query_lower) ==
    IF AnyIn(<<"zinc", "zn-ion", "zn ion", "zinc-ion", "aqueous zinc", "zn metal",
               "zn anode", "zinc metal", "zinc anode">>, query_lower)
    THEN "zinc"
    ELSE IF AnyIn(<<"sodium", "na-ion", "na ion", "sodium-ion", "na metal">>,
                  query_lower)
    THEN "sodium-ion"
    ELSE IF AnyIn(<<"magnesium", "mg-ion", "mg ion", "magnesium-ion", "mg metal">>,
                  query_lower)
    THEN "magnesium"
    ELSE IF AnyIn(<<"solid-state", "solid state", "all-solid", "solid electrolyte",
                    "polymer electrolyte">>, query_lower)
    THEN "solid-state"
    ELSE IF AnyIn(<<"lithium", "li-ion", "li ion", "lithium-ion", "lipf6", "lifsi">>,
                  query_lower)
    THEN "lithium-ion"
    ELSE IF AnyIn(<<"aqueous", "water-based", "water based">>, query_lower)
    THEN "aqueous"
    ELSE ""

\* The predefined component lists of _parse_query, by detected chemistry.
ParseComponents(detected_battery, query_lower) ==
    CASE detected_battery = "zinc" ->
            MapUpper(Detected(<<"znso4", "zn(cf3so3)2", "zncl2", "zn triflate",
                                "zinc triflate", "zinc sulfate">>, query_lower))
            \o MapUpper(Detected(<<"litfsi", "mno2", "mnso4">>, query_lower))
      [] detected_battery = "sodium-ion" ->
            MapUpper(Detected(<<"napf6", "natfsi", "nafsi", "naclo4">>, query_lower))
            \o MapUpper(Detected(<<"ec", "pc", "dme", "diglyme", "tetraglyme">>,
                                 query_lower))
      [] detected_battery = "magnesium" ->
            MapUpper(Detected(<<"mgcl2", "mg(tfsi)2", "mgtfsi2">>, query_lower))
            \o MapUpper(Detected(<<"thf", "dme", "diglyme", "tetraglyme", "tegdme">>,
                                 query_lower))
      [] OTHER ->
            Detected(<<"EC", "DMC", "EMC", "DEC", "PC">>, query_lower)
            \o Detected(<<"LiPF6", "LiFSI", "LiTFSI", "LiBF4">>, query_lower)
            \o Detected(<<"VC", "FEC", "PS", "LiBOB", "DTD">>, query_lower)

\* for material in all_user_materials: append unless already there,
\* compared in upper case.
RECURSIVE AddMaterials(_, _)
AddMaterials(components, materials) ==
    IF Len(materials) = 0 THEN components
    ELSE AddMaterials(
            IF Upper(Head(materials)) \notin Range(MapUpper(components))
            THEN Append(components, Head(materials)) ELSE components,
            Tail(materials))

\* An extractor that reads "high voltage" as 4.6 V.
HighVoltageIs46(detected_battery, query_lower) ==
    [max_voltage |-> IF Contains("high voltage", query_lower) THEN 460 ELSE 420,
     max_temperature |-> 45]

ParseOperatingConditions(detected_battery, query_lower) ==
    CASE detected_battery = "zinc" -> [max_voltage |-> 180, max_temperature |-> 50]
      [] detected_battery = "sodium-ion" -> [max_voltage |-> 400, max_temperature |-> 55]
      [] detected_battery = "magnesium" -> [max_voltage |-> 300, max_temperature |-> 50]
      [] OTHER ->
            ("max_voltage" :>
                (IF Contains("high voltage", query_lower) \/ Contains("high-voltage", query_lower)
                 THEN 450
                 ELSE IF Contains("4.5", query_lower) \/ Contains("4.6", query_lower)
                 THEN 450
                 ELSE IF Contains("4.3", query_lower) \/ Contains("4.4", query_lower)
                 THEN 435
                 ELSE 420))
            @@ (IF \/ Contains("high temp", query_lower)
                   \/ Contains("high-temp", query_lower)
                   \/ Contains("thermal", query_lower)
                THEN ("max_temperature" :> 60)
                ELSE IF Contains("low temp", query_lower) \/ Contains("cold", query_lower)
                THEN ("min_temperature" :> (0 - 30))
                ELSE ("max_temperature" :> 45))

\* An extractor that assumes the lithium-ion electrodes for every chemistry.
GraphiteForEveryChemistry(detected_battery, query_lower) ==
    [anode |-> "graphite", cathode |-> "NMC"]

ParseElectrodes(detected_battery, query_lower) ==
    CASE detected_battery = "zinc" ->
            [anode |-> "zinc metal",
             cathode |-> IF Contains("mno2", query_lower) \/ Contains("manganese", query_lower)
                         THEN "MnO2"
                         ELSE IF Contains("v2o5", query_lower) \/ Contains("vanadium", query_lower)
                         THEN "V2O5" ELSE "MnO2"]
      [] detected_battery = "sodium-ion" ->
            [anode |-> "hard carbon", cathode |-> "Na layered oxide"]
      [] detected_battery = "magnesium" ->
            [anode |-> "magnesium metal", cathode |-> "Mo6S8 (Chevrel)"]
      [] OTHER ->
            [anode |-> IF Contains("silicon", query_lower) \/ Contains("si anode", query_lower)
                       THEN "silicon-graphite" ELSE "graphite",
             cathode |-> IF Contains("nmc", query_lower) \/ Contains("ncm", query_lower)
                         THEN "NMC"
                         ELSE IF Contains("lco", query_lower) \/ Contains("licoo2", query_lower)
                         THEN "LCO"
                         ELSE IF Contains("lfp", query_lower) \/ Contains("lifepo4", query_lower)
                         THEN "LFP" ELSE "NMC"]

ParseApplication(query_lower) ==
    IF Contains("ev", query_lower) \/ Contains("electric vehicle", query_lower)
    THEN "electric_vehicle"
    ELSE IF Contains("grid", query_lower) \/ Contains("storage", query_lower)
    THEN "grid_storage"
    ELSE IF \/ Contains("consumer", query_lower) \/ Contains("phone", query_lower)
            \/ Contains("laptop", query_lower)
    THEN "consumer_electronics"
    ELSE IF Contains("fast charg", query_lower) THEN "fast_charging"
    ELSE "general"

\* The orders list(set(xs)) may produce: every arrangement of the distinct
\* entries of xs.
SetOrders(S) ==
    { o \in [1..Cardinality(S) -> S] : \A x \in S : \E i \in 1..Cardinality(S) : o[i] = x }

\* An extractor that falls back to the lithium-ion list for every chemistry.
DefaultsForEveryChemistry(detected_battery, merged, all_user_materials) ==
    IF Len(merged) = 0 /\ Len(all_user_materials) = 0
    THEN <<"EC", "EMC", "LiPF6">> ELSE merged

\* The default component list of _parse_query.
DefaultComponents(detected_battery, merged, all_user_materials) ==
    IF /\ Len(merged) = 0
       /\ Len(all_user_materials) = 0
       /\ detected_battery \in {"lithium-ion", ""}
    THEN <<"EC", "EMC", "LiPF6">> ELSE merged

\* OrchestratorAgent._parse_query.  umi is self._user_materials_input;
\* all_user_materials is the order in which list(set(...)) yields the merged
\* materials.
_parse_query(q, umi, all_user_materials) ==
    LET query_lower == Lower(q)
        detected_battery == ParseBatteryType(query_lower)
        merged == AddMaterials(ParseComponents(detected_battery, query_lower),
                               all_user_materials)
        defaulted == DefaultComponents(detected_battery, merged, all_user_materials)
        li_branch == detected_battery \notin {"zinc", "sodium-ion", "magnesium"}
        silicon == Contains("silicon", query_lower) \/ Contains("si anode", query_lower)
        components == IF li_branch /\ silicon /\ "FEC" \notin Range(defaulted)
                      THEN Append(defaulted, "FEC") ELSE defaulted
    IN  [components |-> components,
         operating_conditions |-> ParseOperatingConditions(detected_battery, query_lower),
         electrode_materials |-> ParseElectrodes(detected_battery, query_lower),
         application |-> ParseApplication(query_lower),
         battery_type |-> detected_battery]
        @@ (IF umi # "" THEN ("user_materials_raw_input" :> Strip(umi)) ELSE EmptyDict)
        @@ (IF Len(all_user_materials) > 0
            THEN ("user_specified_materials" :> all_user_materials) ELSE EmptyDict)

\* The merged materials of the query text and of the dedicated input field,
\* as a set (set(user_specified_materials + user_input_materials)).
UserMaterialSet(q, umi) ==
    Range(_extract_user_materials(q))
    \cup (IF umi # "" THEN Range(_extract_user_materials(umi)) ELSE {})


\* ------------------------------------------------- the literature responder

common_solvents == << <<"EC", "Ethylene Carbonate">>, <<"DMC", "Dimethyl Carbonate">>,
                      <<"EMC", "Ethyl Methyl Carbonate">>, <<"DEC", "Diethyl Carbonate">>,
                      <<"PC", "Propylene Carbonate">> >>

common_salts == << <<"LiPF6", "Lithium Hexafluorophosphate">>,
                   <<"LiTFSI", "Lithium bis(trifluoromethanesulfonyl)imide">>,
                   <<"LiFSI", "Lithium bis(fluorosulfonyl)imide">>,
                   <<"LiBF4", "Lithium Tetrafluoroborate">> >>

common_additives == << <<"VC", "Vinylene Carbonate">>, <<"FEC", "Fluoroethylene Carbonate">>,
                       <<"PS", "Propane Sultone">>,
                       <<"LiBOB", "Lithium bis(oxalato)borate">>,
                       <<"DTD", "1,3,2-Dioxathiolane 2,2-dioxide">> >>

recent_trends == <<
    "High-concentration electrolytes (>3M) for extended voltage windows",
    "Localized high-concentration electrolytes with diluents",
    "Fluorinated solvents for high-voltage stability",
    "Ionic liquid electrolytes for safety",
    "Solid-state electrolytes: sulfides, oxides, polymers",
    "Dual-salt electrolytes for synergistic effects",
    "Weakly-coordinating anions for improved kinetics" >>

trend_keywords == <<"high-voltage", "safety", "solid-state", "silicon",
                    "fast-charging", "concentration">>

RECURSIVE KBEntries(_, _, _)
KBEntries(table, label, query_lower) ==
    IF Len(table) = 0 THEN <<>>
    ELSE (IF \/ Contains(Lower(Head(table)[1]), query_lower)
             \/ Contains(Lower(Head(table)[2]), query_lower)
          THEN <<[title |-> label \o ": " \o Head(table)[2] \o " (" \o Head(table)[1] \o ")",
                  relevance_score |-> 90, source |-> "knowledge_base"]>>
          ELSE <<>>)
         \o KBEntries(Tail(table), label, query_lower)

RECURSIVE TrendsFor(_, _)
TrendsFor(keyword, trends) ==
    IF Len(trends) = 0 THEN <<>>
    ELSE (IF Contains(keyword, Lower(Head(trends)))
          THEN <<[title |-> "Recent Research Trend", content |-> Head(trends),
                  relevance_score |-> 75, source |-> "knowledge_base"]>>
          ELSE <<>>)
         \o TrendsFor(keyword, Tail(trends))

RECURSIVE TrendEntries(_, _)
TrendEntries(keywords, query_lower) ==
    IF Len(keywords) = 0 THEN <<>>
    ELSE (IF Contains(Head(keywords), query_lower)
          THEN TrendsFor(Head(keywords), recent_trends) ELSE <<>>)
         \o TrendEntries(Tail(keywords), query_lower)

\* LiteratureRAGAgent._search_knowledge_base
_search_knowledge_base(q) ==
    LET query_lower == Lower(q)
    IN  KBEntries(common_solvents, "Solvent", query_lower)
        \o KBEntries(common_salts, "Salt", query_lower)
        \o KBEntries(common_additives, "Additive", query_lower)
        \o TrendEntries(trend_keywords, query_lower)

\* The similarity search of the document store, as the responder sees it.
\* Distances are in fiftieths (0.02), so that 1 - score / 2 is a whole
\* number of hundredths and round(similarity, 2) leaves it as it is.
MaxHits == 2

Distances == { 0, 10, 25, 50, 120 }

\* The store returns its hits nearest first (ascending distance).
ScoreLists ==
    UNION { { s \in [1..n -> Distances] :
                \A i \in 1..n, j \in 1..n : i < j => s[i] <= s[j] } : n \in 0..MaxHits }

\*   kind "absent"    the responder has no store (vector_store is None)
\*   kind "scored"    similarity_search_with_score returned (doc, score) pairs
\*   kind "unscored"  the scored search raised, similarity_search returned docs
\*   kind "fails"     the scored search raised and the unscored one raised too
StoreOutcomes ==
    { [kind |-> "absent"], [kind |-> "fails"] }
    \cup { [kind |-> "scored", scores |-> s] : s \in ScoreLists }
    \cup { [kind |-> "unscored", count |-> n] : n \in 0..MaxHits }

Min(a, b) == IF a <= b THEN a ELSE b

Max(a, b) == IF a >= b THEN a ELSE b

\* max(0, min(1, 1 - (score / 2))) in hundredths.
Similarity(score) == Max(0, Min(100, 100 - score))

UnscoredRelevance == 85

UploadedDocument(relevance_score) ==
    [title |-> "Uploaded Document", relevance_score |-> relevance_score,
     source |-> "uploaded_document"]

\* A store whose unscored hits are lost.
UnscoredHitsDropped(outcome) ==
    IF outcome.kind = "scored"
    THEN [i \in 1..Len(outcome.scores) |-> UploadedDocument(Similarity(outcome.scores[i]))]
    ELSE <<>>

\* LiteratureRAGAgent._search_vector_store
_search_vector_store(outcome) ==
    CASE outcome.kind = "absent" -> <<>>
      [] outcome.kind = "scored" ->
            [i \in 1..Len(outcome.scores) |->
                UploadedDocument(Similarity(outcome.scores[i]))]
      [] outcome.kind = "unscored" ->
            [i \in 1..outcome.count |-> UploadedDocument(UnscoredRelevance)]
      [] outcome.kind = "fails" -> <<>>

\* LiteratureRAGAgent.process; rag_results is what the search of the
\* document store contributed (nothing when there is no store or it failed).
LiteratureProcess(q, rag_results) ==
    LET results == rag_results \o _search_knowledge_base(q)
    IN  [status |-> "success", query |-> q, results |-> results,
         sources_count |-> Len(results)]

\* --------------------------------------------------- the property responder

\* The keys of the molecular property table and the category of each entry.
property_database ==
    [EC |-> "solvent", DMC |-> "solvent", EMC |-> "solvent", DEC |-> "solvent",
     PC |-> "solvent", LiPF6 |-> "salt", LiTFSI |-> "salt", LiFSI |-> "salt",
     LiBF4 |-> "salt", VC |-> "additive", FEC |-> "additive", PS |-> "additive",
     LiBOB |-> "additive"]

compatibility_rules == <<
    [rule_id |-> "PC_graphite", components |-> <<"PC">>,
     condition |-> "PC concentration > 30%", severity |-> "critical"],
    [rule_id |-> "LiTFSI_Al", components |-> <<"LiTFSI">>,
     condition |-> "voltage > 3.8V", severity |-> "high"],
    [rule_id |-> "LiPF6_thermal", components |-> <<"LiPF6">>,
     condition |-> "temperature > 60C", severity |-> "high"],
    [rule_id |-> "high_EC_viscosity", components |-> <<"EC">>,
     condition |-> "EC concentration > 50%", severity |-> "medium"],
    [rule_id |-> "FEC_gas_generation", components |-> <<"FEC">>,
     condition |-> "concentration > 15%", severity |-> "medium"],
    [rule_id |-> "high_voltage_cathode", components |-> <<"EC", "DMC", "EMC", "DEC">>,
     condition |-> "cathode voltage > 4.5V", severity |-> "high"] >>

\* PropertyCompatibilityAgent._get_component_properties
_get_component_properties(components) ==
    [c \in Range(MapUpper(components)) |->
        IF c \in DOMAIN property_database
        THEN [status |-> "known", category |-> property_database[c]]
        ELSE [status |-> "unknown", note |-> "Not in database"]]

\* Whether _check_compatibility reports the rule.
RuleTriggered(rule, components_upper, voltage, temperature, anode) ==
    LET rule_components == MapUpper(rule.components)
    IN  /\ \E i \in 1..Len(rule_components) : rule_components[i] \in components_upper
        /\ \/ /\ "PC" \in Range(rule_components) /\ "PC" \in components_upper
              /\ Contains("graphite", Lower(anode))
           \/ /\ "LiTFSI" \in Range(rule_components) /\ "LiTFSI" \in components_upper
              /\ voltage > 380
           \/ /\ "LiPF6" \in Range(rule_components) /\ "LiPF6" \in components_upper
              /\ temperature > 60
           \/ /\ Contains("cathode voltage", rule.condition)
              /\ voltage > 450

RECURSIVE IssuesOf(_, _, _, _, _)
IssuesOf(rules, components_upper, voltage, temperature, anode) ==
    IF Len(rules) = 0 THEN <<>>
    ELSE (IF RuleTriggered(Head(rules), components_upper, voltage, temperature, anode)
          THEN <<[rule_id |-> Head(rules).rule_id, severity |-> Head(rules).severity]>>
          ELSE <<>>)
         \o IssuesOf(Tail(rules), components_upper, voltage, temperature, anode)

\* PropertyCompatibilityAgent._check_compatibility
_check_compatibility(components, operating_conditions, electrode_materials) ==
    IssuesOf(compatibility_rules, Range(MapUpper(components)),
             Get(operating_conditions, "max_voltage", 420),
             Get(operating_conditions, "max_temperature", 45),
             Get(electrode_materials, "anode", "graphite"))

\* PropertyCompatibilityAgent.process (the aggregate estimates and the
\* recommendation strings are derived from the fields kept here).
PropertyProcess(components, operating_conditions, electrode_materials) ==
    LET issues == _check_compatibility(components, operating_conditions,
                                       electrode_materials)
    IN  [status |-> "success",
         component_properties |-> _get_component_properties(components),
         compatibility_issues |-> issues,
         is_compatible |-> \A i \in 1..Len(issues) : issues[i].severity # "critical"]

\* -------------------------------------------------------------- the planner

\* The static formulation templates of _generate_fallback_plans, by
\* chemistry and plan type (concentrations and scores in hundredths).
templates ==
    "zinc" :>
        [
         baseline |->
            [title |-> "Baseline Aqueous Zinc Electrolyte",
             formulation |-> <<
                 [name |-> "Zinc Sulfate", abbreviation |-> "ZnSO4", concentration |-> 200, unit |-> "M", role |-> "salt"],
                 [name |-> "Water", abbreviation |-> "H2O", concentration |-> 10000, unit |-> "vol%", role |-> "solvent"],
                 [name |-> "Manganese Sulfate", abbreviation |-> "MnSO4", concentration |-> 10, unit |-> "M", role |-> "additive"] >>,
             priority_score |-> 85],
         optimized |->
            [title |-> "Optimized Zinc Triflate Electrolyte",
             formulation |-> <<
                 [name |-> "Zinc Trifluoromethanesulfonate", abbreviation |-> "Zn(CF3SO3)2", concentration |-> 300, unit |-> "M", role |-> "salt"],
                 [name |-> "Water", abbreviation |-> "H2O", concentration |-> 10000, unit |-> "vol%", role |-> "solvent"],
                 [name |-> "Lithium bis(trifluoromethanesulfonyl)imide", abbreviation |-> "LiTFSI", concentration |-> 50, unit |-> "M", role |-> "additive"] >>,
             priority_score |-> 90],
         advanced |->
            [title |-> "Water-in-Salt Zinc Electrolyte",
             formulation |-> <<
                 [name |-> "Zinc Trifluoromethanesulfonate", abbreviation |-> "Zn(CF3SO3)2", concentration |-> 400, unit |-> "M", role |-> "salt"],
                 [name |-> "Lithium bis(trifluoromethanesulfonyl)imide", abbreviation |-> "LiTFSI", concentration |-> 2100, unit |-> "M", role |-> "salt"],
                 [name |-> "Water", abbreviation |-> "H2O", concentration |-> 10000, unit |-> "vol%", role |-> "solvent"] >>,
             priority_score |-> 88] ]
    @@
    "sodium-ion" :>
        [
         baseline |->
            [title |-> "Baseline Sodium-ion Electrolyte",
             formulation |-> <<
                 [name |-> "Ethylene Carbonate", abbreviation |-> "EC", concentration |-> 5000, unit |-> "vol%", role |-> "solvent"],
                 [name |-> "Propylene Carbonate", abbreviation |-> "PC", concentration |-> 5000, unit |-> "vol%", role |-> "solvent"],
                 [name |-> "Sodium Hexafluorophosphate", abbreviation |-> "NaPF6", concentration |-> 100, unit |-> "M", role |-> "salt"] >>,
             priority_score |-> 85],
         optimized |->
            [title |-> "Optimized Ether-based Na Electrolyte",
             formulation |-> <<
                 [name |-> "Diethylene Glycol Dimethyl Ether", abbreviation |-> "Diglyme", concentration |-> 10000, unit |-> "vol%", role |-> "solvent"],
                 [name |-> "Sodium bis(trifluoromethanesulfonyl)imide", abbreviation |-> "NaTFSI", concentration |-> 100, unit |-> "M", role |-> "salt"] >>,
             priority_score |-> 90],
         advanced |->
            [title |-> "Advanced Concentrated Na Electrolyte",
             formulation |-> <<
                 [name |-> "Dimethoxyethane", abbreviation |-> "DME", concentration |-> 10000, unit |-> "vol%", role |-> "solvent"],
                 [name |-> "Sodium bis(fluorosulfonyl)imide", abbreviation |-> "NaFSI", concentration |-> 400, unit |-> "M", role |-> "salt"] >>,
             priority_score |-> 88] ]
    @@
    "lithium-ion" :>
        [
         baseline |->
            [title |-> "Baseline Commercial-type Electrolyte",
             formulation |-> <<
                 [name |-> "Ethylene Carbonate", abbreviation |-> "EC", concentration |-> 3000, unit |-> "vol%", role |-> "solvent"],
                 [name |-> "Ethyl Methyl Carbonate", abbreviation |-> "EMC", concentration |-> 7000, unit |-> "vol%", role |-> "solvent"],
                 [name |-> "Lithium Hexafluorophosphate", abbreviation |-> "LiPF6", concentration |-> 100, unit |-> "M", role |-> "salt"],
                 [name |-> "Vinylene Carbonate", abbreviation |-> "VC", concentration |-> 200, unit |-> "wt%", role |-> "additive"] >>,
             priority_score |-> 85],
         optimized |->
            [title |-> "Optimized Li-ion Electrolyte",
             formulation |-> <<
                 [name |-> "Ethylene Carbonate", abbreviation |-> "EC", concentration |-> 3000, unit |-> "vol%", role |-> "solvent"],
                 [name |-> "Dimethyl Carbonate", abbreviation |-> "DMC", concentration |-> 4000, unit |-> "vol%", role |-> "solvent"],
                 [name |-> "Ethyl Methyl Carbonate", abbreviation |-> "EMC", concentration |-> 3000, unit |-> "vol%", role |-> "solvent"],
                 [name |-> "Lithium bis(fluorosulfonyl)imide", abbreviation |-> "LiFSI", concentration |-> 120, unit |-> "M", role |-> "salt"],
                 [name |-> "Vinylene Carbonate", abbreviation |-> "VC", concentration |-> 150, unit |-> "wt%", role |-> "additive"],
                 [name |-> "Fluoroethylene Carbonate", abbreviation |-> "FEC", concentration |-> 500, unit |-> "wt%", role |-> "additive"] >>,
             priority_score |-> 90],
         advanced |->
            [title |-> "Advanced Dual-Salt Li Electrolyte",
             formulation |-> <<
                 [name |-> "Ethylene Carbonate", abbreviation |-> "EC", concentration |-> 3000, unit |-> "vol%", role |-> "solvent"],
                 [name |-> "Dimethyl Carbonate", abbreviation |-> "DMC", concentration |-> 3500, unit |-> "vol%", role |-> "solvent"],
                 [name |-> "Ethyl Methyl Carbonate", abbreviation |-> "EMC", concentration |-> 3500, unit |-> "vol%", role |-> "solvent"],
                 [name |-> "Lithium Hexafluorophosphate", abbreviation |-> "LiPF6", concentration |-> 80, unit |-> "M", role |-> "salt"],
                 [name |-> "Lithium bis(fluorosulfonyl)imide", abbreviation |-> "LiFSI", concentration |-> 20, unit |-> "M", role |-> "salt"],
                 [name |-> "Vinylene Carbonate", abbreviation |-> "VC", concentration |-> 200, unit |-> "wt%", role |-> "additive"],
                 [name |-> "1,3,2-Dioxathiolane 2,2-dioxide", abbreviation |-> "DTD", concentration |-> 100, unit |-> "wt%", role |-> "additive"] >>,
             priority_score |-> 88] ]
    @@
    "magnesium" :>
        [
         baseline |->
            [title |-> "Baseline APC Magnesium Electrolyte",
             formulation |-> <<
                 [name |-> "Magnesium Chloride", abbreviation |-> "MgCl2", concentration |-> 25, unit |-> "M", role |-> "salt"],
                 [name |-> "Aluminum Chloride", abbreviation |-> "AlCl3", concentration |-> 50, unit |-> "M", role |-> "Lewis acid"],
                 [name |-> "Tetrahydrofuran", abbreviation |-> "THF", concentration |-> 10000, unit |-> "vol%", role |-> "solvent"] >>,
             priority_score |-> 85],
         optimized |->
            [title |-> "Optimized Mg(TFSI)2 Electrolyte",
             formulation |-> <<
                 [name |-> "Magnesium bis(trifluoromethanesulfonyl)imide", abbreviation |-> "Mg(TFSI)2", concentration |-> 50, unit |-> "M", role |-> "salt"],
                 [name |-> "Dimethoxyethane", abbreviation |-> "DME", concentration |-> 5000, unit |-> "vol%", role |-> "solvent"],
                 [name |-> "Tetraglyme", abbreviation |-> "TEGDME", concentration |-> 5000, unit |-> "vol%", role |-> "solvent"] >>,
             priority_score |-> 88],
         advanced |->
            [title |-> "Advanced Mg Electrolyte with Boron Cluster",
             formulation |-> <<
                 [name |-> "Magnesium Carborane", abbreviation |-> "Mg(CB11H12)2", concentration |-> 50, unit |-> "M", role |-> "salt"],
                 [name |-> "Tetraglyme", abbreviation |-> "TEGDME", concentration |-> 10000, unit |-> "vol%", role |-> "solvent"] >>,
             priority_score |-> 82] ]


\* Most plans a model response holds.
MaxLLMPlans == 2

\* Plan objects a model response may hold.  The model is asked for title,
\* formulation, rationale, steps, cost, time and priority_score and may
\* leave any of them out.
LLMPlanShapes == <<
    [title |-> "Zinc chloride in water",
     formulation |-> <<
        [name |-> "Zinc Chloride", abbreviation |-> "ZnCl2", concentration |-> 100,
         unit |-> "M", role |-> "salt"],
        [name |-> "Water", abbreviation |-> "H2O", concentration |-> 10000,
         unit |-> "vol%", role |-> "solvent"] >>,
     estimated_cost |-> "$200-400", estimated_time |-> "3 weeks",
     priority_score |-> 90],
    [title |-> "Mixed carbonate blend",
     formulation |-> <<
        [name |-> "Dimethyl sulfoxide", concentration |-> 5000, unit |-> "vol%",
         role |-> "solvent"],
        [name |-> "Unnamed salt", abbreviation |-> "", concentration |-> 100,
         unit |-> "M", role |-> "salt"],
        [name |-> "Sodium Hexafluorophosphate", abbreviation |-> "NaPF6",
         unit |-> "M", role |-> "salt"],
        [name |-> "Ethylene Carbonate", abbreviation |-> "EC", concentration |-> 3000,
         unit |-> "vol%", role |-> "solvent"],
        [name |-> "Ethylene Carbonate", abbreviation |-> "EC", concentration |-> 5000,
         unit |-> "vol%", role |-> "solvent"] >>,
     estimated_cost |-> "$500-900", estimated_time |-> "6 weeks",
     priority_score |-> 95],
    [rationale |-> "A plan that names no title, cost, time or score"] >>

RECURSIVE PlanListsOfLen(_)
PlanListsOfLen(n) ==
    IF n = 0 THEN { <<>> }
    ELSE { Append(l, LLMPlanShapes[i]) :
             l \in PlanListsOfLen(n - 1), i \in 1..Len(LLMPlanShapes) }

LLMPlanLists == UNION { PlanListsOfLen(n) : n \in 0..MaxLLMPlans }

\* The JSON documents a planning response may hold: an object with a
\* "plans" list, an object without one, a document that is no object.
PlanResponses ==
    { LLMRaise, [kind |-> "none"], [kind |-> "text"] }
    \cup { [kind |-> k, value |-> v] :
             k \in {"json", "prose_json"},
             v \in {NonDict, EmptyDict} \cup { [plans |-> l] : l \in LLMPlanLists } }

\* ExperimentPlanningAgent._detect_battery_type
_detect_battery_type(q) ==
    LET query_lower == Lower(q)
    IN  IF AnyIn(<<"zinc", "zn-ion", "zn ion", "zn metal", "zn anode", "aqueous zinc">>,
                 query_lower)
        THEN "zinc"
        ELSE IF AnyIn(<<"sodium", "na-ion", "na ion", "sodium-ion">>, query_lower)
        THEN "sodium-ion"
        ELSE IF AnyIn(<<"magnesium", "mg-ion", "mg ion", "mg metal">>, query_lower)
        THEN "magnesium"
        ELSE IF AnyIn(<<"solid-state", "solid state", "all-solid", "solid electrolyte",
                        "polymer electrolyte">>, query_lower)
        THEN "solid-state"
        ELSE IF AnyIn(<<"aqueous", "water-based", "water based">>, query_lower)
        THEN "aqueous"
        ELSE "lithium-ion"

\* A lookup that ignores the chemistry.
LithiumTemplatesOnly(battery_type) == templates["lithium-ion"]

\* templates.get(battery_type, templates["lithium-ion"])
ChemTemplates(battery_type) ==
    IF battery_type \in DOMAIN templates THEN templates[battery_type]
    ELSE templates["lithium-ion"]

\* The order in which _generate_fallback_plans emits the plan types.
FallbackPlanTypes == <<"advanced", "optimized", "baseline">>

\* ExperimentPlanningAgent._generate_fallback_plans.  plan_id is a fresh
\* random identifier; the position stands for it.
_generate_fallback_plans(q, battery_type) ==
    [i \in 1..Len(FallbackPlanTypes) |->
        LET template == ChemTemplates(battery_type)[FallbackPlanTypes[i]]
        IN  [plan_id |-> i,
             title |-> template.title,
             formulation |-> template.formulation,
             battery_type |-> battery_type,
             estimated_cost |-> "$300-600",
             estimated_time |-> "4-8 weeks",
             priority_score |-> template.priority_score]]

NoPlans == [some |-> FALSE]

SomePlans(plans) == [some |-> TRUE, plans |-> plans]

\* ExperimentPlanningAgent._parse_llm_plans: None, or the "plans" list of
\* the parsed response with plan_id and battery_type set on every plan.
_parse_llm_plans(resp, battery_type) ==
    IF /\ resp.kind \in {"json", "fenced", "prose_json"}
       /\ IsDict(resp.value)
       /\ Has(resp.value, "plans")
    THEN SomePlans([i \in 1..Len(resp.value.plans) |->
                      ("plan_id" :> i) @@ ("battery_type" :> battery_type)
                      @@ resp.value.plans[i]])
    ELSE NoPlans

\* ExperimentPlanningAgent._generate_plans_with_llm
_generate_plans_with_llm(q, battery_type, resp) ==
    IF resp.kind = "raise" THEN _generate_fallback_plans(q, battery_type)
    ELSE LET parsed == _parse_llm_plans(resp, battery_type)
         IN  IF parsed.some /\ Len(parsed.plans) > 0 THEN parsed.plans
             ELSE _generate_fallback_plans(q, battery_type)

\* ExperimentPlanningAgent._select_protocols
_select_protocols == <<"cell_assembly", "cycling_test", "rate_capability",
                       "impedance_spectroscopy", "conductivity_measurement">>

\* ExperimentPlanningAgent._generate_recommendation: the plan the string
\* names and the score it prints; top_plan['title'] raises KeyError on a
\* plan without a title.
_generate_recommendation(plans, battery_type) ==
    IF Len(plans) = 0 THEN Returned([named |-> FALSE])
    ELSE IF ~Has(plans[1], "title") THEN Raised("KeyError")
    ELSE Returned([named |-> TRUE,
                   title |-> plans[1].title,
                   priority |-> Get(plans[1], "priority_score", 85),
                   estimated_cost |-> Get(plans[1], "estimated_cost", "TBD"),
                   estimated_time |-> Get(plans[1], "estimated_time", "TBD")])

\* ExperimentPlanningAgent.process.  llm is whether the planner holds the
\* backend, resp the backend's response to the planning call.
PlannerProcess(input, llm, resp) ==
    LET battery_type == IF input.battery_type = ""
                        THEN _detect_battery_type(input.query)
                        ELSE input.battery_type
        generated == IF llm THEN _generate_plans_with_llm(input.query, battery_type, resp)
                     ELSE _generate_fallback_plans(input.query, battery_type)
        plans == [i \in 1..Len(generated) |->
                    ("protocols" :> _select_protocols) @@ generated[i]]
        recommendation == _generate_recommendation(plans, battery_type)
    IN  IF ~recommendation.ok THEN Raised(recommendation.exc)
        ELSE Returned([status |-> "success",
                       experiment_plans |-> plans,
                       total_plans |-> Len(plans),
                       battery_type |-> battery_type,
                       recommendation |-> recommendation.value])


\* ------------------------------------------------------------ the predictor

\* random.uniform(-5, 5), in hundredths.
JitterMax == 500

\* The draws of the jitter, in hundredths.  A draw lying exactly halfway
\* between two tenths (probability zero) is left out: how Python rounds it
\* depends on the binary representation of the sum.
JitterValues == { v \in (0 - JitterMax)..JitterMax : v % 10 # 5 }

\* round(x, 1) of x = n / 100, in tenths (n off the ties).
RoundToTenth(n) == (n + 5) \div 10

\* int(x) of x = n / d: truncation toward zero.
Trunc(n, d) == IF n >= 0 THEN n \div d ELSE 0 - ((0 - n) \div d)

\* any(ind in comp for ind in indicators for comp in components_upper)
AnyIndicator(indicators, components_upper) ==
    \E i \in 1..Len(indicators) : \E c \in components_upper : Contains(indicators[i], c)

\* PerformancePredictionAgent._detect_chemistry
_detect_chemistry(formulation) ==
    LET components_upper == { Upper(k) : k \in DOMAIN formulation }
    IN  IF AnyIndicator(<<"LIPF6", "LIFSI", "LITFSI", "LIBF4", "LIBOB", "LI", "LITHIUM">>,
                        components_upper)
        THEN "lithium-ion"
        ELSE IF AnyIndicator(<<"ZN", "ZNSO4", "ZNCL2", "ZNTFSI", "ZN(CF3SO3)2", "ZINC">>,
                             components_upper)
        THEN "zinc"
        ELSE IF AnyIndicator(<<"NA", "NAPF6", "NATFSI", "NAFSI", "SODIUM">>,
                             components_upper)
        THEN "sodium-ion"
        ELSE IF AnyIndicator(<<"MG", "MGCL2", "MGTFSI", "MAGNESIUM">>, components_upper)
        THEN "magnesium"
        ELSE IF AnyIndicator(<<"H2O", "WATER", "AQUEOUS">>, components_upper)
        THEN "aqueous"
        ELSE "unknown"

baselines ==
    "lithium-ion" :> [capacity |-> 85, cycles |-> 500, rate |-> 70, conductivity |-> 10,
                      temp_range |-> <<0 - 20, 60>>]
    @@ "zinc" :> [capacity |-> 80, cycles |-> 300, rate |-> 65, conductivity |-> 50,
                  temp_range |-> <<0, 50>>]
    @@ "sodium-ion" :> [capacity |-> 80, cycles |-> 400, rate |-> 65, conductivity |-> 8,
                        temp_range |-> <<0 - 20, 55>>]
    @@ "magnesium" :> [capacity |-> 75, cycles |-> 200, rate |-> 50, conductivity |-> 5,
                       temp_range |-> <<0, 50>>]
    @@ "aqueous" :> [capacity |-> 80, cycles |-> 500, rate |-> 80, conductivity |-> 100,
                     temp_range |-> <<0, 40>>]
    @@ "unknown" :> [capacity |-> 75, cycles |-> 300, rate |-> 60, conductivity |-> 5,
                     temp_range |-> <<0 - 10, 50>>]

\* A lookup that always answers with the 'unknown' row.
UnknownBaseValues(chemistry) == baselines["unknown"]

\* PerformancePredictionAgent._get_base_values_for_chemistry
_get_base_values_for_chemistry(chemistry) ==
    IF chemistry \in DOMAIN baselines THEN baselines[chemistry] ELSE baselines["unknown"]

\* PerformancePredictionAgent._basic_estimation; variation is the jitter in
\* hundredths.  capacity and rate are kept in tenths (round(x, 1)), the
\* conductivity in hundredths (round(x, 2)), the cycles as the integer
\* int(x) yields.
_basic_estimation(formulation, variation) ==
    LET chemistry == _detect_chemistry(formulation)
        base_values == _get_base_values_for_chemistry(chemistry)
    IN  [status |-> "success",
         predictions |->
            [capacity_retention_percent |->
                RoundToTenth(base_values.capacity * 100 + variation),
             cycle_stability_cycles |->
                Trunc(base_values.cycles * 100 + variation * 10, 100),
             rate_capability_2C_percent |->
                RoundToTenth(base_values.rate * 100 + variation),
             ionic_conductivity_mS_cm |->
                RoundToTenth(base_values.conductivity * 1000 + variation),
             temperature_range_C |-> base_values.temp_range],
         confidence_score |-> 50,
         model_notes |-> "Basic estimation for " \o chemistry \o " chemistry.",
         battery_chemistry |-> chemistry,
         formulation_analyzed |-> formulation,
         prediction_method |-> "basic_estimation"]

\* JSON objects a prediction response may hold.
PredictJsonValues ==
    { NonDict, EmptyDict,
      [model_notes |-> "no numbers available"],
      [predictions |-> [capacity_retention_percent |-> 900,
                        cycle_stability_cycles |-> 800,
                        rate_capability_2C_percent |-> 750,
                        ionic_conductivity_mS_cm |-> 1200],
       confidence_score |-> 80,
       model_notes |-> "model estimate",
       battery_chemistry_detected |-> "zinc"] }

PredictResponses ==
    { LLMRaise, [kind |-> "none"], [kind |-> "text"] }
    \cup { [kind |-> k, value |-> v] :
             k \in {"json", "prose_json"}, v \in PredictJsonValues }

NoJson == [some |-> FALSE]

\* PerformancePredictionAgent._parse_llm_response: the parsed document, or
\* None when no JSON can be recovered.
_parse_llm_response(resp) ==
    IF resp.kind \in {"json", "fenced", "prose_json"}
    THEN [some |-> TRUE, value |-> resp.value]
    ELSE NoJson

\* PerformancePredictionAgent._predict_with_llm.  A parsed document that is
\* empty, or that is no object (predictions.get raises inside the try),
\* ends in the basic estimation.
_predict_with_llm(formulation, battery_type, resp, variation) ==
    LET parsed == _parse_llm_response(resp)
    IN  IF /\ resp.kind # "raise"
           /\ parsed.some
           /\ IsDict(parsed.value)
           /\ DOMAIN parsed.value # {}
        THEN [status |-> "success",
              predictions |-> Get(parsed.value, "predictions", EmptyDict),
              confidence_score |-> Get(parsed.value, "confidence_score", 70),
              model_notes |-> Get(parsed.value, "model_notes", ""),
              battery_chemistry |->
                 Get(parsed.value, "battery_chemistry_detected",
                     IF battery_type # "" THEN battery_type ELSE "unknown"),
              formulation_analyzed |-> formulation,
              prediction_method |-> "llm_based"]
        ELSE _basic_estimation(formulation, variation)

\* PerformancePredictionAgent.process
PredictorProcess(input, llm, resp, variation) ==
    IF llm
    THEN _predict_with_llm(input.formulation, input.battery_type, resp, variation)
    ELSE _basic_estimation(input.formulation, variation)

\* ---------------------------------------------------------- the coordinator

\* A conversion in which the first component of a repeated abbreviation wins.
FirstComponentWins(formulation_list) ==
    LET named == { i \in 1..Len(formulation_list) :
                     Get(formulation_list[i], "abbreviation", "") # "" }
        first(k) == CHOOSE i \in named :
                       /\ formulation_list[i].abbreviation = k
                       /\ \A j \in named :
                              formulation_list[j].abbreviation = k => i <= j
    IN  [k \in { formulation_list[i].abbreviation : i \in named } |->
            Get(formulation_list[first(k)], "concentration", 0)]

\* OrchestratorAgent._convert_formulation_to_dict
RECURSIVE _convert_formulation_to_dict(_)
_convert_formulation_to_dict(formulation_list) ==
    IF Len(formulation_list) = 0 THEN EmptyDict
    ELSE LET component == formulation_list[Len(formulation_list)]
             before == _convert_formulation_to_dict(
                          SubSeq(formulation_list, 1, Len(formulation_list) - 1))
             abbrev == Get(component, "abbreviation", "")
         IN  IF abbrev # ""
             THEN (abbrev :> Get(component, "concentration", 0)) @@ before
             ELSE before


\* The free-text calls whose failure the callers absorb: the wrapper or the
\* caller catches the exception and execution continues.
TextResponses == { [kind |-> "text"], LLMRaise }

UserMaterialInputs == {""}

\* Jitter draws explored along the design chain.
JitterSample == { 17 }

Invocation(agent, plan) == [agent |-> agent, plan |-> plan]

AgentResponse(agent_type, status) == [agent_type |-> agent_type, status |-> status]

Init ==
    /\ llm_service \in BOOLEAN
    /\ pc = "idle"
    /\ query = ""
    /\ user_materials_input = ""
    /\ classification = EmptyDict
    /\ requirements = EmptyDict
    /\ literature_result = EmptyDict
    /\ property_result = EmptyDict
    /\ planning_result = EmptyDict
    /\ experiment_plans = <<>>
    /\ all_predictions = <<>>
    /\ agent_responses = <<>>
    /\ result = EmptyDict
    /\ exception = ""
    /\ invoked = <<>>
    /\ planner_input = EmptyDict
    /\ last_llm = NoCall
    /\ pred_call = EmptyDict
    /\ lit_call = EmptyDict
    /\ prop_call = EmptyDict
    /\ conv_call = EmptyDict
    /\ vector_store = None
    /\ simple_store = <<>>
    /\ pending_documents = <<>>
    /\ indexed_documents = <<>>
    /\ response = EmptyDict
    /\ parse_call = EmptyDict
    /\ requests = NoRequests

\* process_query / OrchestratorAgent.process up to the classification:
\* a request arrives and its inputs are stored.
ProcessStart(q, umi) ==
    /\ pc = "idle"
    /\ pc' = "classify"
    /\ query' = q
    /\ user_materials_input' = umi
    /\ UNCHANGED <<llm_service, classification, requirements, literature_result,
                   property_result, planning_result, experiment_plans,
                   all_predictions, agent_responses, result, exception, invoked,
                   planner_input, last_llm, pred_call,
                   other_calls, document_state, extractor_state>>

\* Step 0 of process: classification = await self._classify_query(query)
ClassifyQuery ==
    /\ pc = "classify"
    /\ \E resp \in (IF CallsLLMClassify(query, llm_service)
                    THEN ClassifyResponses ELSE { NoCall.resp }) :
          /\ classification' = _classify_query(query, llm_service, resp)
          /\ last_llm' = IF CallsLLMClassify(query, llm_service)
                         THEN Call("classify", resp) ELSE NoCall
    /\ pc' = "route"
    /\ UNCHANGED <<llm_service, query, user_materials_input, requirements,
                   literature_result, property_result, planning_result,
                   experiment_plans, all_predictions, agent_responses, result,
                   exception, invoked, planner_input, pred_call,
                   other_calls, document_state, extractor_state>>

\* A branch that sends every delegated query to the design route.
RouteAlwaysDesign(query_type) == "design"

\* The branch of process on classification["query_type"].
RouteByType(query_type) ==
    IF query_type = QUERY_TYPE_LITERATURE_ONLY THEN "literature_only"
    ELSE IF query_type = QUERY_TYPE_PROPERTY_CHECK THEN "property_only"
    ELSE "design"

\* The exception the log line of process raises on a classification that
\* is no object or lacks a field it prints ("" if none).
ClassificationError(c) ==
    IF ~IsDict(c) THEN "TypeError"
    ELSE IF ~Has(c, "query_type") \/ ~Has(c, "confidence") THEN "KeyError"
    ELSE ""

\* process after the classification: the log line reads query_type and
\* confidence, then should_delegate (default True) selects the direct
\* response and query_type the route.
Route ==
    /\ pc = "route"
    /\ IF ClassificationError(classification) # ""
       THEN /\ pc' = "raised"
            /\ exception' = ClassificationError(classification)
            /\ classification' = EmptyDict
       ELSE IF ~Get(classification, "should_delegate", TRUE)
       THEN /\ pc' = "simple"
            /\ UNCHANGED <<exception, classification>>
       ELSE /\ pc' = RouteByType(classification.query_type)
            /\ classification' = EmptyDict
            /\ UNCHANGED exception
    /\ UNCHANGED <<llm_service, query, user_materials_input, requirements,
                   literature_result, property_result, planning_result,
                   experiment_plans, all_predictions, agent_responses, result,
                   invoked, planner_input, last_llm, pred_call,
                   other_calls, document_state, extractor_state>>

DirectResult(q, response_type, summary) ==
    [query |-> q,
     agent_responses |-> <<[agent_type |-> "orchestrator", status |-> "success",
                            response_type |-> response_type]>>,
     experiment_plans |-> <<>>,
     summary |-> summary,
     requirements_parsed |-> EmptyDict]

\* OrchestratorAgent._handle_simple_query and the return or fall-through
\* of process.  The greeting and off-topic texts come from the backend when
\* it is present; that call is not guarded.
HandleSimpleQuery ==
    /\ pc = "simple"
    /\ LET query_type == classification.query_type
       IN  IF query_type \in {QUERY_TYPE_GREETING, QUERY_TYPE_OFF_TOPIC}
           THEN IF llm_service
                THEN \E resp \in TextResponses :
                        /\ last_llm' = Call("direct_response", resp)
                        /\ IF resp.kind = "raise"
                           THEN /\ pc' = "raised"
                                /\ exception' = "LLMError"
                                /\ UNCHANGED result
                           ELSE /\ pc' = "done"
                                /\ result' = DirectResult(query,
                                       IF query_type = QUERY_TYPE_GREETING
                                       THEN "greeting" ELSE "off_topic_redirect",
                                       "model text")
                                /\ UNCHANGED exception
                ELSE /\ pc' = "done"
                     /\ result' = DirectResult(query,
                            IF query_type = QUERY_TYPE_GREETING
                            THEN "greeting" ELSE "off_topic_redirect",
                            "static text")
                     /\ UNCHANGED <<exception, last_llm>>
           ELSE IF query_type = QUERY_TYPE_HELP
           THEN /\ pc' = "done"
                /\ result' = DirectResult(query, "help", "help text")
                /\ UNCHANGED <<exception, last_llm>>
           ELSE /\ pc' = RouteByType(query_type)
                /\ UNCHANGED <<result, exception, last_llm>>
    /\ classification' = EmptyDict
    /\ UNCHANGED <<llm_service, query, user_materials_input, requirements,
                   literature_result, property_result, planning_result,
                   experiment_plans, all_predictions, agent_responses, invoked,
                   planner_input, pred_call,
                   other_calls, document_state, extractor_state>>


\* The response record of a single-responder route.
SingleResult(q, agent_type, data, requirements_parsed) ==
    [query |-> q,
     agent_responses |-> <<[agent_type |-> agent_type, status |-> data.status]>>,
     experiment_plans |-> <<>>,
     summary |-> agent_type,
     requirements_parsed |-> requirements_parsed]

\* The literature responder's call and the guarded summarisation that
\* follows it when the backend is present and something was found.
LiteratureStep(next_pc, as_result) ==
    LET lit == LiteratureProcess(query, <<>>)
    IN  /\ literature_result' = lit
        /\ invoked' = Append(invoked, Invocation("literature_rag", 0))
        /\ IF llm_service /\ Len(lit.results) > 0
           THEN \E resp \in TextResponses : last_llm' = Call("summarize_literature", resp)
           ELSE UNCHANGED last_llm
        /\ pc' = next_pc
        /\ IF as_result
           THEN /\ result' = SingleResult(query, "literature_rag", lit, EmptyDict)
                /\ UNCHANGED agent_responses
           ELSE /\ agent_responses' =
                      Append(agent_responses, AgentResponse("literature_rag", lit.status))
                /\ UNCHANGED result

\* OrchestratorAgent._handle_literature_query
HandleLiteratureQuery ==
    /\ pc = "literature_only"
    /\ LiteratureStep("done", TRUE)
    /\ UNCHANGED <<llm_service, query, user_materials_input, classification,
                   requirements, property_result, planning_result,
                   experiment_plans, all_predictions, exception, planner_input,
                   pred_call,
                   other_calls, document_state, extractor_state>>

\* The property responder's call on the parsed requirements and the
\* guarded compatibility call to the backend.
PropertyStep(reqs, next_pc, as_result) ==
    LET prop == PropertyProcess(reqs.components, reqs.operating_conditions,
                                reqs.electrode_materials)
    IN  /\ property_result' = prop
        /\ invoked' = Append(invoked, Invocation("property_compatibility", 0))
        /\ IF llm_service
           THEN \E resp \in TextResponses : last_llm' = Call("predict_compatibility", resp)
           ELSE UNCHANGED last_llm
        /\ pc' = next_pc
        /\ IF as_result
           THEN /\ result' = SingleResult(query, "property_compatibility", prop, reqs)
                /\ UNCHANGED agent_responses
           ELSE /\ agent_responses' =
                      Append(agent_responses,
                             AgentResponse("property_compatibility", prop.status))
                /\ UNCHANGED result

\* OrchestratorAgent._handle_property_query
HandlePropertyQuery ==
    /\ pc = "property_only"
    /\ \E order \in SetOrders(UserMaterialSet(query, user_materials_input)) :
          LET reqs == _parse_query(query, user_materials_input, order)
          IN  /\ requirements' = reqs
              /\ PropertyStep(reqs, "done", TRUE)
    /\ UNCHANGED <<llm_service, query, user_materials_input, classification,
                   literature_result, planning_result, experiment_plans,
                   all_predictions, exception, planner_input, pred_call,
                   other_calls, document_state, extractor_state>>

\* _handle_design_query, requirements = await self._analyze_query_with_llm(query)
DesignAnalyze ==
    /\ pc = "design"
    /\ \E order \in SetOrders(UserMaterialSet(query, user_materials_input)) :
          requirements' = _parse_query(query, user_materials_input, order)
    /\ IF llm_service
       THEN \E resp \in TextResponses : last_llm' = Call("analyze_electrolyte_query", resp)
       ELSE UNCHANGED last_llm
    /\ pc' = "design_literature"
    /\ UNCHANGED <<llm_service, query, user_materials_input, classification,
                   literature_result, property_result, planning_result,
                   experiment_plans, all_predictions, agent_responses, result,
                   exception, invoked, planner_input, pred_call,
                   other_calls, document_state, extractor_state>>

\* _handle_design_query, step 1
DesignLiterature ==
    /\ pc = "design_literature"
    /\ LiteratureStep("design_property", FALSE)
    /\ UNCHANGED <<llm_service, query, user_materials_input, classification,
                   requirements, property_result, planning_result,
                   experiment_plans, all_predictions, exception, planner_input,
                   pred_call,
                   other_calls, document_state, extractor_state>>

\* _handle_design_query, step 2
DesignProperty ==
    /\ pc = "design_property"
    /\ PropertyStep(requirements, "design_planning", FALSE)
    /\ UNCHANGED <<llm_service, query, user_materials_input, classification,
                   requirements, literature_result, planning_result,
                   experiment_plans, all_predictions, exception, planner_input,
                   pred_call,
                   other_calls, document_state, extractor_state>>

\* A planner input assembled without the literature responder's output.
PlannerInputWithoutLiterature ==
    [query |-> query,
     literature_data |-> EmptyDict,
     property_data |-> property_result,
     target_application |-> Get(requirements, "application", "general"),
     battery_type |-> Get(requirements, "battery_type", ""),
     user_specified_materials |-> Get(requirements, "user_specified_materials", <<>>),
     detected_components |-> Get(requirements, "components", <<>>)]

\* The input record _handle_design_query hands to the planner.
PlannerInput ==
    [query |-> query,
     literature_data |-> literature_result,
     property_data |-> property_result,
     target_application |-> Get(requirements, "application", "general"),
     battery_type |-> Get(requirements, "battery_type", ""),
     user_specified_materials |-> Get(requirements, "user_specified_materials", <<>>),
     detected_components |-> Get(requirements, "components", <<>>)]

\* _handle_design_query, step 3: the planner's process, whose exception
\* nothing in the coordinator catches.
DesignPlanning ==
    /\ pc = "design_planning"
    /\ planner_input' = PlannerInput
    /\ invoked' = Append(invoked, Invocation("experiment_planning", 0))
    /\ \E resp \in (IF llm_service THEN PlanResponses ELSE { NoCall.resp }) :
          LET r == PlannerProcess(PlannerInput, llm_service, resp)
          IN  /\ last_llm' = IF llm_service THEN Call("generate_plans", resp) ELSE last_llm
              /\ IF r.ok
                 THEN /\ planning_result' = r.value
                      /\ experiment_plans' = r.value.experiment_plans
                      /\ agent_responses' =
                            Append(agent_responses,
                                   AgentResponse("experiment_planning", r.value.status))
                      /\ pc' = "design_predict"
                      /\ UNCHANGED exception
                 ELSE /\ pc' = "raised"
                      /\ exception' = r.exc
                      /\ UNCHANGED <<planning_result, experiment_plans, agent_responses>>
    /\ UNCHANGED <<llm_service, query, user_materials_input, classification,
                   requirements, literature_result, property_result,
                   all_predictions, result, pred_call,
                   other_calls, document_state, extractor_state>>

\* A loop that hands the first plan's formulation to every call.
FirstPlanFormulation(i) ==
    _convert_formulation_to_dict(Get(experiment_plans[1], "formulation", <<>>))

\* formulation_dict of the loop's pass over plan i.
formulation_dict(i) ==
    _convert_formulation_to_dict(Get(experiment_plans[i], "formulation", <<>>))

\* _handle_design_query, step 4: one pass of the loop over the plans.
DesignPredict ==
    /\ pc = "design_predict"
    /\ Len(all_predictions) < Len(experiment_plans)
    /\ LET i == Len(all_predictions) + 1
           plan == experiment_plans[i]
           input == [formulation |-> formulation_dict(i),
                     battery_type |-> Get(requirements, "battery_type", "")]
       IN  \E resp \in (IF llm_service THEN PredictResponses ELSE { NoCall.resp }),
              variation \in JitterSample :
              LET prediction_result == PredictorProcess(input, llm_service, resp, variation)
              IN  /\ last_llm' = IF llm_service THEN Call("predict", resp) ELSE last_llm
                  /\ experiment_plans' =
                        [experiment_plans EXCEPT ![i] =
                            ("predicted_performance" :> prediction_result.predictions)
                            @@ ("prediction_confidence" :> prediction_result.confidence_score)
                            @@ ("prediction_notes" :> prediction_result.model_notes)
                            @@ plan]
                  /\ all_predictions' =
                        Append(all_predictions,
                               [plan_id |-> plan.plan_id,
                                plan_title |-> Get(plan, "title", "Plan"),
                                predictions |-> prediction_result.predictions,
                                confidence_score |-> prediction_result.confidence_score])
                  /\ invoked' = Append(invoked, Invocation("performance_prediction", i))
    /\ UNCHANGED <<llm_service, pc, query, user_materials_input, classification,
                   requirements, literature_result, property_result,
                   planning_result, agent_responses, result, exception,
                   planner_input, pred_call,
                   other_calls, document_state, extractor_state>>

RECURSIVE SumConfidence(_)
SumConfidence(predictions) ==
    IF Len(predictions) = 0 THEN 0
    ELSE predictions[Len(predictions)].confidence_score
         + SumConfidence(SubSeq(predictions, 1, Len(predictions) - 1))

\* round(sum / n, 2) of confidences kept in hundredths.
AverageConfidence(predictions) ==
    IF Len(predictions) = 0 THEN 0
    ELSE (2 * SumConfidence(predictions) + Len(predictions)) \div (2 * Len(predictions))

\* The plan fields the summary formats with plan[...]: a plan among the
\* first three that lacks one of them raises KeyError.
SummaryRaises(plans) ==
    \E i \in 1..Len(plans) :
        /\ i <= 3
        /\ \E k \in {"title", "priority_score", "estimated_cost", "estimated_time"} :
              ~Has(plans[i], k)

\* _handle_design_query after the loop: the predictor's entry, the guarded
\* rationale calls, the summary and the return.
DesignFinish ==
    /\ pc = "design_predict"
    /\ Len(all_predictions) = Len(experiment_plans)
    /\ IF llm_service /\ Len(experiment_plans) > 0
       THEN \E resp \in TextResponses :
               last_llm' = Call("generate_formulation_rationale", resp)
       ELSE UNCHANGED last_llm
    /\ LET responses ==
              Append(agent_responses,
                     [agent_type |-> "performance_prediction", status |-> "success",
                      predictions_per_plan |-> all_predictions,
                      average_confidence |-> AverageConfidence(all_predictions),
                      total_plans_evaluated |-> Len(experiment_plans)])
       IN  /\ agent_responses' = responses
           /\ IF SummaryRaises(experiment_plans)
              THEN /\ pc' = "raised"
                   /\ exception' = "KeyError"
                   /\ UNCHANGED result
              ELSE /\ pc' = "done"
                   /\ result' = [query |-> query,
                                 agent_responses |-> responses,
                                 experiment_plans |-> experiment_plans,
                                 summary |-> "design summary",
                                 requirements_parsed |-> requirements]
                   /\ UNCHANGED exception
    /\ UNCHANGED <<llm_service, query, user_materials_input, classification,
                   requirements, literature_result, property_result,
                   planning_result, experiment_plans, all_predictions, invoked,
                   planner_input, pred_call,
                   other_calls, document_state, extractor_state>>

\* process_query hands the record to the client, or answers 500 for an
\* exception, and the server is ready for the next request.
Respond ==
    /\ pc \in {"done", "raised"}
    /\ pc' = "idle"
    /\ query' = ""
    /\ user_materials_input' = ""
    /\ classification' = EmptyDict
    /\ requirements' = EmptyDict
    /\ literature_result' = EmptyDict
    /\ property_result' = EmptyDict
    /\ planning_result' = EmptyDict
    /\ experiment_plans' = <<>>
    /\ all_predictions' = <<>>
    /\ agent_responses' = <<>>
    /\ result' = EmptyDict
    /\ exception' = ""
    /\ invoked' = <<>>
    /\ planner_input' = EmptyDict
    /\ last_llm' = NoCall
    /\ UNCHANGED <<llm_service, pred_call,
                   other_calls, document_state, extractor_state>>

Next ==
    \/ \E q \in Queries, umi \in UserMaterialInputs : ProcessStart(q, umi)
    \/ ClassifyQuery
    \/ Route
    \/ HandleSimpleQuery
    \/ HandleLiteratureQuery
    \/ HandlePropertyQuery
    \/ DesignAnalyze
    \/ DesignLiterature
    \/ DesignProperty
    \/ DesignPlanning
    \/ DesignPredict
    \/ DesignFinish
    \/ Respond

Spec == Init /\ [][Next]_vars

\* ---------------------------------- the literature responder called directly

\* Queries that name entries of the built-in tables, beside the others.
LiteratureQueries ==
    Queries \cup { "LiPF6 in EC", "FEC for silicon", "fast-charging safety" }

\* LiteratureRAGAgent.process called once; what the store did is kept
\* beside the result.
LiteratureCall(q, outcome) ==
    /\ lit_call' = [query |-> q, outcome |-> outcome,
                    result |-> LiteratureProcess(q, _search_vector_store(outcome))]
    /\ UNCHANGED <<orchestrator_state, pred_call, prop_call, conv_call,
                   document_state, extractor_state>>

NextLiterature ==
    /\ pc = "idle"
    /\ lit_call = EmptyDict
    /\ \E q \in LiteratureQueries, outcome \in StoreOutcomes : LiteratureCall(q, outcome)

SpecLiterature == Init /\ [][NextLiterature]_vars

\* ------------------------------------ the property responder called directly

MaxComponents == 2

\* Component names as a request may spell them: keys of the property table
\* in the table's spelling and in other letter cases, and a name the table
\* does not hold.
ComponentNames ==
    { "EC", "ec", "PC", "DMC", "FEC", "LiPF6", "lipf6", "LiTFSI", "LITFSI", "DMSO" }

ComponentLists == UNION { [1..n -> ComponentNames] : n \in 0..MaxComponents }

\* operating_conditions (volts in hundredths, degrees Celsius) and
\* electrode_materials; the empty record leaves the defaults to the responder.
OperatingConditionsInputs ==
    { EmptyDict }
    \cup { [max_voltage |-> v, max_temperature |-> t] : v \in {380, 430, 460}, t \in {60, 80} }

ElectrodeInputs ==
    { EmptyDict, [anode |-> "Graphite"], [anode |-> "lithium metal"] }

\* PropertyCompatibilityAgent.process called once with an input record.
PropertyCall(components, operating_conditions, electrode_materials) ==
    /\ prop_call' =
          [components |-> components,
           operating_conditions |-> operating_conditions,
           electrode_materials |-> electrode_materials,
           result |-> PropertyProcess(components, operating_conditions,
                                      electrode_materials)]
    /\ UNCHANGED <<orchestrator_state, pred_call, lit_call, conv_call,
                   document_state, extractor_state>>

NextProperty ==
    /\ pc = "idle"
    /\ prop_call = EmptyDict
    /\ \E components \in ComponentLists,
          operating_conditions \in OperatingConditionsInputs,
          electrode_materials \in ElectrodeInputs :
          PropertyCall(components, operating_conditions, electrode_materials)

SpecProperty == Init /\ [][NextProperty]_vars

\* --------------------------------------------- the conversion called directly

MaxFormulationLen == 3

\* Components as a plan's formulation list may hold them (concentrations in
\* hundredths): a repeated abbreviation, a missing concentration, an empty
\* abbreviation and a component without the abbreviation field.
FormulationComponents ==
    { [name |-> "Ethylene Carbonate", abbreviation |-> "EC", concentration |-> 3000],
      [name |-> "Ethylene Carbonate", abbreviation |-> "EC", concentration |-> 5000],
      [name |-> "Lithium Hexafluorophosphate", abbreviation |-> "LiPF6", concentration |-> 100],
      [name |-> "Vinylene Carbonate", abbreviation |-> "VC"],
      [name |-> "Fluoroethylene Carbonate", abbreviation |-> "", concentration |-> 200],
      [name |-> "Water", concentration |-> 10000] }

FormulationLists ==
    UNION { [1..n -> FormulationComponents] : n \in 0..MaxFormulationLen }

\* OrchestratorAgent._convert_formulation_to_dict called once.
ConvertCall(formulation_list) ==
    /\ conv_call' = [formulation_list |-> formulation_list,
                     result |-> _convert_formulation_to_dict(formulation_list)]
    /\ UNCHANGED <<orchestrator_state, pred_call, lit_call, prop_call,
                   document_state, extractor_state>>

NextConvert ==
    /\ pc = "idle"
    /\ conv_call = EmptyDict
    /\ \E formulation_list \in FormulationLists : ConvertCall(formulation_list)

SpecConvert == Init /\ [][NextConvert]_vars

\* --------------------------------- the requirement extractor called directly

MaxParseWords == 2

\* Words of a query: a keyword of each chemistry, electrode, voltage and
\* temperature phrases, and component names in several spellings.
ParseWords ==
    {"zinc", "sodium", "magnesium", "solid-state", "lithium", "aqueous", "silicon",
     "high voltage", "4.4V", "thermal", "cold", "PC", "LiTFSI", "ZnSO4",
     "1M NaPF6", "dme"}

RECURSIVE ParseQueriesOfLen(_)
ParseQueriesOfLen(n) ==
    IF n = 1 THEN ParseWords
    ELSE { q \o " " \o w : q \in ParseQueriesOfLen(n - 1), w \in ParseWords }

ParseQueries == UNION { ParseQueriesOfLen(n) : n \in 1..MaxParseWords }

\* Texts of the dedicated materials field of a request.
ParseUserMaterialInputs == {"", "2% fec", "DMSO, LiPF6", " vc "}

\* OrchestratorAgent._parse_query called once, self._user_materials_input
\* holding umi.
ParseCall(q, umi, all_user_materials) ==
    /\ parse_call' = [query |-> q,
                      user_materials_input |-> umi,
                      result |-> _parse_query(q, umi, all_user_materials)]
    /\ UNCHANGED <<orchestrator_state, requests, pred_call, other_calls,
                   document_state>>

\* The property check the coordinator makes on the extracted requirements
\* (_handle_property_query and step 2 of _handle_design_query).
ParsedPropertyCheck ==
    LET reqs == parse_call.result
    IN  /\ prop_call' =
              [components |-> reqs.components,
               operating_conditions |-> reqs.operating_conditions,
               electrode_materials |-> reqs.electrode_materials,
               result |-> PropertyProcess(reqs.components, reqs.operating_conditions,
                                          reqs.electrode_materials)]
        /\ UNCHANGED <<orchestrator_state, extractor_state, pred_call, lit_call,
                       conv_call, document_state>>

NextParse ==
    /\ pc = "idle"
    /\ \/ /\ parse_call = EmptyDict
          /\ \E q \in ParseQueries, umi \in ParseUserMaterialInputs :
                \E order \in SetOrders(UserMaterialSet(q, umi)) : ParseCall(q, umi, order)
       \/ /\ parse_call # EmptyDict
          /\ prop_call = EmptyDict
          /\ ParsedPropertyCheck

SpecParse == Init /\ [][NextParse]_vars

\* ------------------------------------- two requests on the one coordinator

ConcurrentQueries == {"Hello", "design lithium", "Zinc PC"}

ConcurrentUserMaterialInputs == {"", "DMSO"}

\* Whether process, having this classification, goes on to _parse_query:
\* not when the log line raises, not when the direct response is returned,
\* not on the literature route.
ReachesExtractor(c) ==
    /\ ClassificationError(c) = ""
    /\ \/ Get(c, "should_delegate", TRUE)
       \/ c.query_type \notin {QUERY_TYPE_GREETING, QUERY_TYPE_OFF_TOPIC, QUERY_TYPE_HELP}
    /\ RouteByType(c.query_type) # "literature_only"

\* The rest of process from the classification on, as far as the
\* requirements go: _parse_query reads self._user_materials_input as it is
\* at that moment.
Extracted(r, q, umi, c, field) ==
    IF ReachesExtractor(c)
    THEN \E order \in SetOrders(UserMaterialSet(q, field)) :
            requests' = [requests EXCEPT ![r] =
                            [pc |-> "done", query |-> q, user_materials |-> umi,
                             requirements |-> _parse_query(q, field, order)]]
    ELSE requests' = [requests EXCEPT ![r] =
                         [pc |-> "done", query |-> q, user_materials |-> umi]]

\* process_query and process up to the first suspension: the field is
\* stored, and the request is suspended in the classification call to the
\* backend when the classifier makes one; otherwise it runs on to the
\* extraction without yielding.
ReceiveRequest(r, q, umi) ==
    /\ requests[r].pc = "idle"
    /\ user_materials_input' = umi
    /\ IF CallsLLMClassify(q, llm_service)
       THEN requests' = [requests EXCEPT ![r] =
                            [pc |-> "classify", query |-> q, user_materials |-> umi]]
       ELSE Extracted(r, q, umi, _classify_query(q, llm_service, NoCall.resp), umi)
    /\ UNCHANGED <<llm_service, pc, query, classification, requirements,
                   literature_result, property_result, planning_result,
                   experiment_plans, all_predictions, agent_responses, result,
                   exception, invoked, planner_input, last_llm, parse_call,
                   pred_call, other_calls, document_state>>

\* The backend answers the classification call and the request resumes.
ResumeRequest(r, resp) ==
    /\ requests[r].pc = "classify"
    /\ Extracted(r, requests[r].query, requests[r].user_materials,
                 _classify_query(requests[r].query, llm_service, resp),
                 user_materials_input)
    /\ UNCHANGED <<orchestrator_state, parse_call, pred_call, other_calls,
                   document_state>>

NextConcurrent ==
    /\ pc = "idle"
    /\ \/ \E r \in RequestIds, q \in ConcurrentQueries,
             umi \in ConcurrentUserMaterialInputs : ReceiveRequest(r, q, umi)
       \/ \E r \in RequestIds, resp \in ClassifyResponses : ResumeRequest(r, resp)

SpecConcurrent == Init /\ [][NextConcurrent]_vars

\* ------------------------------------------- the predictor called directly

\* Formulations handed to the predictor (abbreviation -> concentration in
\* hundredths): one per chemistry the detector knows, one it does not know,
\* and the empty formulation.
PredictFormulations ==
    { EmptyDict,
      ("EC" :> 3000) @@ ("EMC" :> 7000) @@ ("LiPF6" :> 100),
      ("ZnSO4" :> 200) @@ ("H2O" :> 10000),
      ("NaPF6" :> 100) @@ ("EC" :> 5000),
      ("MgCl2" :> 50) @@ ("THF" :> 10000),
      ("H2O" :> 10000),
      ("DMSO" :> 10000) }

\* PerformancePredictionAgent.process called once with an input record;
\* the backend's response and the jitter drawn are kept beside the result.
PredictCall(formulation, battery_type, resp, variation) ==
    /\ pc = "idle"
    /\ pred_call = EmptyDict
    /\ pred_call' =
          [formulation |-> formulation,
           battery_type |-> battery_type,
           resp |-> resp,
           variation |-> variation,
           result |-> PredictorProcess([formulation |-> formulation,
                                        battery_type |-> battery_type],
                                       llm_service, resp, variation)]
    /\ UNCHANGED <<llm_service, pc, query, user_materials_input, classification,
                   requirements, literature_result, property_result,
                   planning_result, experiment_plans, all_predictions,
                   agent_responses, result, exception, invoked, planner_input,
                   last_llm, other_calls, document_state, extractor_state>>

NextPredictor ==
    /\ pred_call = EmptyDict
    /\ \E formulation \in PredictFormulations, battery_type \in {"", "zinc"},
          variation \in JitterValues :
          \E resp \in (IF llm_service THEN PredictResponses ELSE { NoCall.resp }) :
             PredictCall(formulation, battery_type, resp, variation)

SpecPredictor == Init /\ [][NextPredictor]_vars

\* ------------------------------------- the document endpoints of the server

\* A Chroma store holding the chunks of the listed sources, one chunk per
\* indexed file.  A store whose collection could not be recreated behaves
\* as an empty store every operation of which fails.
Chroma(chunks) == [present |-> TRUE, chunks |-> chunks]

MaxChunks == 3

\* The names a client may upload a file under.
Filenames == { "", "a.pdf", "b.txt", "c.DOCX", "d.exe", "notes", ".pdf" }

allowed_extensions == { ".pdf", ".txt", ".doc", ".docx" }

\* Path(filename).suffix for a name without directory part.
Suffix(filename) ==
    LET dots == { i \in 1..Len(filename) : CharAt(filename, i) = "." }
        last == CHOOSE i \in dots : \A j \in dots : j <= i
    IN  IF dots # {} /\ 1 < last /\ last < Len(filename)
        THEN SubSeq(filename, last, Len(filename))
        ELSE ""

Names(documents) == { documents[i].filename : i \in 1..Len(documents) }

\* A server that never finds an uploaded name in the pending queue.
PendingListIgnored(filename) == <<>>

existing_pending(filename) ==
    SelectSeq(pending_documents, LAMBDA d : d.filename = filename)

\* A server that never finds an uploaded name among the indexed documents.
IndexedListIgnored(filename) == <<>>

existing_indexed(filename) ==
    SelectSeq(indexed_documents, LAMBDA d : d.filename = filename)

Answer(endpoint, status_code, status) ==
    [endpoint |-> endpoint, status_code |-> status_code, status |-> status]

\* POST /api/upload.  The upload directory is taken to be writable.
upload_document(filename) ==
    LET file_ext == Lower(Suffix(filename))
        rejected == filename = "" \/ file_ext \notin allowed_extensions
        known == Len(existing_pending(filename)) > 0
                 \/ Len(existing_indexed(filename)) > 0
        doc_info == [filename |-> filename, file_type |-> file_ext,
                     status |-> "pending"]
    IN  /\ pending_documents' =
             IF rejected \/ known THEN pending_documents
             ELSE Append(pending_documents, doc_info)
        /\ response' =
             [filename |-> filename] @@
             (IF rejected THEN Answer("upload", 400, "error")
              ELSE IF Len(existing_pending(filename)) > 0
              THEN Answer("upload", 200, "already_pending")
              ELSE IF Len(existing_indexed(filename)) > 0
              THEN Answer("upload", 200, "already_indexed")
              ELSE Answer("upload", 200, "uploaded"))
        /\ UNCHANGED <<orchestrator_state, extractor_state, pred_call, other_calls, vector_store,
                       simple_store, indexed_documents>>

\* The body of an index request: no filenames, or a list of them.
IndexRequests ==
    { [filenames |-> None] }
    \cup { [filenames |-> [names |-> S]] : S \in SUBSET {"a.pdf", "b.txt", "d.exe"} }

\* An index request that is taken to name every pending document.
AllPending(request) == pending_documents

\* files_to_index of index_documents
files_to_index(request) ==
    IF request.filenames # None /\ request.filenames.names # {}
    THEN SelectSeq(pending_documents,
                   LAMBDA d : d.filename \in request.filenames.names)
    ELSE pending_documents

\* Where DocumentService.process_pdf / process_docx / process_text can put
\* the chunks of one file: "vector" the Chroma store, "simple" the in-memory
\* store, "both" (the simple PDF reader with a store present), "none" (the
\* file yields no chunk or the processing fails; an error record is returned).
ProcessOutcomes(doc) ==
    IF vector_store.present
    THEN (IF doc.file_type = ".pdf" THEN {"vector", "simple", "both", "none"}
          ELSE {"vector", "none"})
    ELSE {"simple", "none"}

RECURSIVE ChunksFor(_, _, _)
ChunksFor(files, outcomes, kinds) ==
    IF Len(files) = 0 THEN <<>>
    ELSE (IF Head(outcomes) \in kinds THEN <<Head(files).filename>> ELSE <<>>)
         \o ChunksFor(Tail(files), Tail(outcomes), kinds)

\* POST /api/index.  Every processing function returns a record, so each
\* selected file moves from the pending queue to the indexed list.
index_documents(request) ==
    LET files == files_to_index(request)
    IN  IF Len(pending_documents) = 0
        THEN /\ response' = [request |-> request] @@ Answer("index", 200, "no_pending")
             /\ UNCHANGED <<orchestrator_state, extractor_state, pred_call, other_calls, vector_store,
                            simple_store, pending_documents, indexed_documents>>
        ELSE IF Len(files) = 0
        THEN /\ response' = [request |-> request] @@ Answer("index", 200, "not_found")
             /\ UNCHANGED <<orchestrator_state, extractor_state, pred_call, other_calls, vector_store,
                            simple_store, pending_documents, indexed_documents>>
        ELSE \E outcomes \in [1..Len(files) -> {"vector", "simple", "both", "none"}] :
             /\ \A i \in 1..Len(files) : outcomes[i] \in ProcessOutcomes(files[i])
             /\ indexed_documents' = indexed_documents \o
                   [i \in 1..Len(files) |->
                       [filename |-> files[i].filename,
                        file_type |-> files[i].file_type,
                        status |-> "indexed",
                        chunks_created |-> IF outcomes[i] = "none" THEN 0 ELSE 1]]
             /\ pending_documents' =
                   SelectSeq(pending_documents,
                             LAMBDA d : d.filename \notin Names(files))
             /\ vector_store' =
                   IF vector_store.present
                   THEN Chroma(vector_store.chunks
                               \o ChunksFor(files, outcomes, {"vector", "both"}))
                   ELSE vector_store
             /\ simple_store' =
                   simple_store \o ChunksFor(files, outcomes, {"simple", "both"})
             /\ response' = [request |-> request] @@ Answer("index", 200, "success")
             /\ UNCHANGED <<orchestrator_state, extractor_state, pred_call, other_calls>>

\* DELETE /api/documents/pending/{filename}
remove_pending_document(filename) ==
    /\ pending_documents' =
          SelectSeq(pending_documents, LAMBDA d : d.filename # filename)
    /\ response' =
          [filename |-> filename] @@
          (IF Len(existing_pending(filename)) > 0
           THEN Answer("remove", 200, "success")
           ELSE Answer("remove", 404, "error"))
    /\ UNCHANGED <<orchestrator_state, extractor_state, pred_call, other_calls, vector_store,
                   simple_store, indexed_documents>>

\* DocumentService.get_document_count; reading the ids of the store may fail.
get_document_count(get_ok) ==
    IF vector_store.present
    THEN (IF get_ok THEN Len(vector_store.chunks) ELSE 0)
    ELSE Len(simple_store)

\* GET /api/documents
get_documents ==
    /\ \E get_ok \in BOOLEAN :
          response' = [total_indexed |-> get_document_count(get_ok),
                       total_pending |-> Len(pending_documents)]
                      @@ Answer("documents", 200, "ready")
    /\ UNCHANGED <<orchestrator_state, extractor_state, pred_call, other_calls, vector_store,
                   simple_store, pending_documents, indexed_documents>>

\* DocumentService.clear_store: delete_collection may raise, which is
\* logged, and then the store keeps its chunks.
clear_store(delete_ok) ==
    /\ vector_store' = IF vector_store.present /\ delete_ok
                       THEN Chroma(<<>>) ELSE vector_store
    /\ simple_store' = <<>>

\* DELETE /api/documents
clear_documents ==
    /\ \E delete_ok \in BOOLEAN : clear_store(delete_ok)
    /\ pending_documents' = <<>>
    /\ indexed_documents' = <<>>
    /\ response' = Answer("clear", 200, "success")
    /\ UNCHANGED <<orchestrator_state, extractor_state, pred_call, other_calls>>

\* The state after the server's start on an empty upload directory: the
\* store is there when the LangChain packages and the embeddings are.
InitDocuments ==
    /\ llm_service = FALSE
    /\ pc = "idle"
    /\ query = ""
    /\ user_materials_input = ""
    /\ classification = EmptyDict
    /\ requirements = EmptyDict
    /\ literature_result = EmptyDict
    /\ property_result = EmptyDict
    /\ planning_result = EmptyDict
    /\ experiment_plans = <<>>
    /\ all_predictions = <<>>
    /\ agent_responses = <<>>
    /\ result = EmptyDict
    /\ exception = ""
    /\ invoked = <<>>
    /\ planner_input = EmptyDict
    /\ last_llm = NoCall
    /\ pred_call = EmptyDict
    /\ lit_call = EmptyDict
    /\ prop_call = EmptyDict
    /\ conv_call = EmptyDict
    /\ vector_store \in { None, Chroma(<<>>) }
    /\ simple_store = <<>>
    /\ pending_documents = <<>>
    /\ indexed_documents = <<>>
    /\ response = EmptyDict
    /\ parse_call = EmptyDict
    /\ requests = NoRequests

NextDocuments ==
    \/ \E filename \in Filenames : upload_document(filename)
    \/ /\ Len(Get(vector_store, "chunks", <<>>)) + Len(pending_documents) <= MaxChunks
       /\ \E request \in IndexRequests : index_documents(request)
    \/ \E filename \in Filenames : remove_pending_document(filename)
    \/ get_documents
    \/ clear_documents

SpecDocuments == InitDocuments /\ [][NextDocuments]_vars

\* ================================================================ properties

\* The classification record names query_type t for some t of S.
ClassifiedIn(S) ==
    /\ IsDict(classification)
    /\ Has(classification, "query_type")
    /\ classification.query_type \in S

\* The request is on the full design route.
OnDesignRoute ==
    \/ pc \in {"design", "design_literature", "design_property", "design_planning",
               "design_predict"}
    \/ pc \in {"done", "raised"} /\ planner_input # EmptyDict

IsPrefix(xs, ys) == Len(xs) <= Len(ys) /\ xs = SubSeq(ys, 1, Len(xs))

AgentTypes(responses) == [i \in 1..Len(responses) |-> responses[i].agent_type]

\* C1: whenever a backend call raises, process still returns a result
\* record on every route: no request ends with the backend's exception
\* propagated to the caller.
C1_BackendExceptionNeverPropagates ==
    ~(pc = "raised" /\ exception = "LLMError")

\* The responders a design request with n plans invokes, in order.
DesignInvocations(n) ==
    <<Invocation("literature_rag", 0), Invocation("property_compatibility", 0),
      Invocation("experiment_planning", 0)>>
    \o [i \in 1..n |-> Invocation("performance_prediction", i)]

\* C2: on the design route the stages run in the order Literature,
\* Property, Planner, Predictor (once per plan, in plan order), summary; the
\* planner is handed the literature and property outputs; the returned
\* agent_responses are the four entries literature_rag,
\* property_compatibility, experiment_planning, performance_prediction.
C2_DesignStagesInOrder ==
    OnDesignRoute =>
        /\ IsPrefix(invoked, DesignInvocations(Len(experiment_plans)))
        /\ planner_input # EmptyDict =>
              /\ IsPrefix(DesignInvocations(0), invoked)
              /\ planner_input.literature_data = literature_result
              /\ planner_input.property_data = property_result
              /\ literature_result # EmptyDict
              /\ property_result # EmptyDict
        /\ pc = "design_predict" =>
              /\ Len(invoked) = 3 + Len(all_predictions)
              /\ \A i \in 1..Len(all_predictions) :
                    all_predictions[i].plan_id = planning_result.experiment_plans[i].plan_id
        /\ pc = "done" =>
              /\ invoked = DesignInvocations(Len(result.experiment_plans))
              /\ Len(result.experiment_plans) = planning_result.total_plans
              /\ AgentTypes(result.agent_responses) =
                    <<"literature_rag", "property_compatibility",
                      "experiment_planning", "performance_prediction">>

C2_Witness ==
    /\ pc = "done"
    /\ OnDesignRoute
    /\ Len(result.experiment_plans) = 3
    /\ Len(invoked) = 6

\* C3: a query labelled greeting, help or off_topic is answered by the
\* direct response, whatever else the classification record holds: the
\* request never enters a responder route, and the direct response invokes
\* no responder and returns no plans.
C3_LabelledQueriesAnsweredDirectly ==
    [][ /\ (pc = "route"
            /\ ClassifiedIn({QUERY_TYPE_GREETING, QUERY_TYPE_HELP, QUERY_TYPE_OFF_TOPIC}))
           => pc' \notin {"design", "literature_only", "property_only"}
        /\ (pc = "simple" /\ pc' = "done")
           => invoked' = <<>> /\ result'.experiment_plans = <<>> ]_vars

\* C4: a query classified literature_search reaches only the literature
\* responder and one classified property_check only the property responder;
\* the planner and the predictor are not invoked, no plans are returned and
\* agent_responses has exactly one entry.
C4_SingleResponderRoutes ==
    [][ /\ (pc \in {"route", "simple"} /\ ClassifiedIn({QUERY_TYPE_LITERATURE_ONLY}))
           => pc' \in {"literature_only", "simple", "raised"}
        /\ (pc \in {"route", "simple"} /\ ClassifiedIn({QUERY_TYPE_PROPERTY_CHECK}))
           => pc' \in {"property_only", "simple", "raised"}
        /\ pc = "literature_only"
           => /\ pc' = "done"
              /\ invoked' = <<Invocation("literature_rag", 0)>>
              /\ result'.experiment_plans = <<>>
              /\ AgentTypes(result'.agent_responses) = <<"literature_rag">>
        /\ pc = "property_only"
           => /\ pc' = "done"
              /\ invoked' = <<Invocation("property_compatibility", 0)>>
              /\ result'.experiment_plans = <<>>
              /\ AgentTypes(result'.agent_responses) = <<"property_compatibility">> ]_vars

C4_Witness ==
    /\ pc = "done"
    /\ invoked = <<Invocation("property_compatibility", 0)>>
    /\ Len(result.agent_responses) = 1

\* C5: the record _classify_query returns always has a query_type among the
\* six fixed intents.
C5_QueryTypeIsFixedIntent ==
    pc = "route" => ClassifiedIn(QueryTypes)

\* A classification response that is text json.loads cannot parse.
UnparseableText(resp) == resp.kind \in {"text", "prose_json"}

\* C6: the model-based classification call is made only when neither the
\* greeting nor the help heuristic matches; and when, for such a query, the
\* backend is absent, raises or returns unparseable text, the record is
\* electrolyte_design with should_delegate true and the request takes the
\* design route.
C6_HeuristicsFirstThenDesignDefault ==
    [][ pc = "route" =>
          /\ last_llm.call = "classify"
             => ~GreetingHeuristic(query) /\ ~HelpHeuristic(query)
          /\ ( /\ ~GreetingHeuristic(query)
               /\ ~HelpHeuristic(query)
               /\ \/ ~llm_service
                  \/ last_llm.resp.kind = "raise"
                  \/ UnparseableText(last_llm.resp) )
             => /\ ClassifiedIn({QUERY_TYPE_ELECTROLYTE_DESIGN})
                /\ classification.should_delegate = TRUE
                /\ pc' = "design" ]_vars

C6_Witness ==
    /\ pc = "route"
    /\ last_llm.call = "classify"
    /\ UnparseableText(last_llm.resp)
    /\ classification.query_type = QUERY_TYPE_ELECTROLYTE_DESIGN

\* The planner has just returned: its result is stored and no plan has been
\* predicted yet, so last_llm is the planning call when a backend exists.
PlannerReturned == pc = "design_predict" /\ all_predictions = <<>>

\* C7: ExperimentPlanningAgent.process returns exactly 3 plans, with
\* total_plans = 3, whatever the backend did.
C7_ExactlyThreePlans ==
    PlannerReturned =>
        /\ Len(planning_result.experiment_plans) = 3
        /\ planning_result.total_plans = 3

PriorityOf(plan) == Get(plan, "priority_score", 85)

NonIncreasing(plans) ==
    \A i \in 1..Len(plans), j \in 1..Len(plans) :
        i < j => PriorityOf(plans[i]) >= PriorityOf(plans[j])

\* C8: the plans of the design route are ordered by non-increasing
\* priority_score, and the plan the recommendation names is one with the
\* highest priority_score.
C8_PlansRanked ==
    PlannerReturned =>
        LET plans == planning_result.experiment_plans
            recommendation == planning_result.recommendation
        IN  /\ NonIncreasing(plans)
            /\ recommendation.named =>
                  \E i \in 1..Len(plans) :
                      /\ Has(plans[i], "title")
                      /\ plans[i].title = recommendation.title
                      /\ \A j \in 1..Len(plans) :
                            PriorityOf(plans[i]) >= PriorityOf(plans[j])

\* The planning response holds no plans: no JSON, a document that is no
\* object, an object without "plans", or an empty list.
YieldsNoPlans(resp) ==
    \/ resp.kind \in {"none", "text"}
    \/ /\ resp.kind \in {"json", "prose_json"}
       /\ \/ ~IsDict(resp.value)
          \/ ~Has(resp.value, "plans")
          \/ resp.value.plans = <<>>

\* The chemistry the planner works with: the one the requirement
\* extractor found, or else its own detection on the query.
DetectedChemistry ==
    IF requirements.battery_type # "" THEN requirements.battery_type
    ELSE _detect_battery_type(query)

\* The template table C9 assigns to a chemistry.
TableFor(chemistry) ==
    IF chemistry \in {"zinc", "sodium-ion", "lithium-ion", "magnesium"}
    THEN templates[chemistry] ELSE templates["lithium-ion"]

TemplateOf(plan) == [title |-> plan.title, formulation |-> plan.formulation,
                     priority_score |-> plan.priority_score]

\* C9: when the backend is absent, its call raises or its response yields
\* no plans, the planner returns the three static templates of the detected
\* chemistry (zinc, sodium-ion, lithium-ion and magnesium have their own
\* table, any other chemistry gets the lithium-ion one) and every plan's
\* battery_type is the detected chemistry.
C9_FallbackTemplatesByChemistry ==
    ( /\ PlannerReturned
      /\ \/ ~llm_service
         \/ last_llm.resp.kind = "raise"
         \/ YieldsNoPlans(last_llm.resp) )
    => LET plans == planning_result.experiment_plans
           table == TableFor(DetectedChemistry)
       IN  /\ Len(plans) = 3
           /\ planning_result.battery_type = DetectedChemistry
           /\ { TemplateOf(plans[i]) : i \in 1..Len(plans) }
                 = { table[t] : t \in {"baseline", "optimized", "advanced"} }
           /\ \A i \in 1..Len(plans) : plans[i].battery_type = DetectedChemistry

C9_Witness ==
    /\ PlannerReturned
    /\ llm_service
    /\ YieldsNoPlans(last_llm.resp)
    /\ planning_result.battery_type = "solid-state"
    /\ planning_result.experiment_plans[1].title = templates["lithium-ion"].advanced.title

\* The predictor was called and had no usable backend answer: the backend
\* is absent, its call raised, or no JSON object came out of the response.
PredictorFellBack ==
    /\ pred_call # EmptyDict
    /\ \/ ~llm_service
       \/ pred_call.resp.kind = "raise"
       \/ pred_call.resp.kind \in {"none", "text"}
       \/ ~IsDict(pred_call.resp.value)

\* The baseline row C10 names for a formulation.
BaselineRow(formulation) ==
    LET chemistry == _detect_chemistry(formulation)
    IN  IF chemistry \in DOMAIN baselines THEN baselines[chemistry]
        ELSE baselines["unknown"]

BasicEstimate(r) ==
    /\ r.status = "success"
    /\ r.prediction_method = "basic_estimation"
    /\ r.confidence_score = 50

\* C10 as written: without a usable backend answer the predictor returns
\* success, basic_estimation, confidence 0.5, and one jitter v of [-5, 5]
\* (hundredths here) gives capacity = base + v, cycles = base + 10v and
\* rate = base + v exactly (capacity and rate are held in tenths).
C10_ExactSharedJitter ==
    PredictorFellBack =>
        LET r == pred_call.result
            base == BaselineRow(pred_call.formulation)
        IN  /\ BasicEstimate(r)
            /\ \E v \in (0 - JitterMax)..JitterMax :
                  /\ r.predictions.capacity_retention_percent * 10 = base.capacity * 100 + v
                  /\ r.predictions.cycle_stability_cycles * 100 = base.cycles * 100 + 10 * v
                  /\ r.predictions.rate_capability_2C_percent * 10 = base.rate * 100 + v

Abs(n) == IF n >= 0 THEN n ELSE 0 - n

\* C10 amended: the metrics are the baseline row shifted by the one jitter
\* v that was drawn, after rounding: capacity and rate are base + v rounded
\* to one decimal (within 0.05 of it), cycles is base + 10v with its
\* fraction cut off.
C10_RoundedSharedJitter ==
    PredictorFellBack =>
        LET r == pred_call.result
            base == BaselineRow(pred_call.formulation)
            v == pred_call.variation
            cycles_exact == base.cycles * 100 + 10 * v
        IN  /\ BasicEstimate(r)
            /\ v \in (0 - JitterMax)..JitterMax
            /\ Abs(r.predictions.capacity_retention_percent * 10
                   - (base.capacity * 100 + v)) < 5
            /\ Abs(r.predictions.rate_capability_2C_percent * 10
                   - (base.rate * 100 + v)) < 5
            /\ r.predictions.cycle_stability_cycles * 100 <= cycles_exact
            /\ cycles_exact < (r.predictions.cycle_stability_cycles + 1) * 100

C10_Witness ==
    /\ PredictorFellBack
    /\ llm_service
    /\ pred_call.resp.kind = "raise"
    /\ pred_call.variation = 17
    /\ _detect_chemistry(pred_call.formulation) = "zinc"
    /\ pred_call.result.predictions.capacity_retention_percent = 802
    /\ pred_call.result.predictions.cycle_stability_cycles = 301

\* ------------------------------------------------ the literature responder

RelevanceNonIncreasing(results) ==
    \A i \in 1..Len(results), j \in 1..Len(results) :
        i < j => results[i].relevance_score >= results[j].relevance_score

\* C11: whatever the query and whatever the similarity search did, the
\* results LiteratureRAGAgent.process returns are ordered by non-increasing
\* relevance_score.
C11_ResultsRanked ==
    lit_call # EmptyDict => RelevanceNonIncreasing(lit_call.result.results)

FromDocuments(results) ==
    { i \in 1..Len(results) : results[i].source = "uploaded_document" }

\* C12: without a store, or when both searches of the store raise, process
\* answers success with exactly the matches of the built-in tables and
\* sources_count is the number of results; when only the scored search
\* raises, the hits of the unscored search are used, each with
\* relevance_score 0.85.
C12_StoreFailuresFallBack ==
    lit_call # EmptyDict =>
        LET r == lit_call.result
            kb == _search_knowledge_base(lit_call.query)
        IN  /\ lit_call.outcome.kind \in {"absent", "fails"} =>
                /\ r.status = "success"
                /\ r.results = kb
                /\ r.sources_count = Len(r.results)
            /\ lit_call.outcome.kind = "unscored" =>
                /\ r.status = "success"
                /\ Len(r.results) = lit_call.outcome.count + Len(kb)
                /\ FromDocuments(r.results) = 1..lit_call.outcome.count
                /\ \A i \in FromDocuments(r.results) : r.results[i].relevance_score = 85
                /\ SubSeq(r.results, lit_call.outcome.count + 1, Len(r.results)) = kb
                /\ r.sources_count = Len(r.results)

\* The scored search raised, the unscored one returned two hits and the
\* query matches the built-in tables.
C12_Witness ==
    /\ lit_call # EmptyDict
    /\ lit_call.outcome.kind = "unscored"
    /\ lit_call.outcome.count = 2
    /\ Len(lit_call.result.results) > 2
    /\ lit_call.result.results[1].relevance_score = 85

\* -------------------------------------------------- the property responder

\* The keys of the property table that equal the name when letter case is
\* ignored.
KeysIgnoringCase(name) ==
    { k \in DOMAIN property_database : Upper(k) = Upper(name) }

\* C13: every requested component whose name equals, ignoring letter case,
\* a key of the property table gets that table entry in
\* component_properties; only the components with no such key are marked
\* unknown ('Not in database').
C13_KnownComponentsGetTableEntry ==
    prop_call # EmptyDict =>
        LET props == prop_call.result.component_properties
        IN  \A i \in 1..Len(prop_call.components) :
               LET name == prop_call.components[i]
                   entry == props[Upper(name)]
               IN  /\ Upper(name) \in DOMAIN props
                   /\ \A k \in KeysIgnoringCase(name) :
                          /\ entry.status = "known"
                          /\ entry.category = property_database[k]
                   /\ entry.status = "unknown" => KeysIgnoringCase(name) = {}

Reported(rule_id) ==
    { i \in 1..Len(prop_call.result.compatibility_issues) :
        prop_call.result.compatibility_issues[i].rule_id = rule_id }

Requested(names) ==
    \E i \in 1..Len(prop_call.components) : prop_call.components[i] \in names

\* C14: LiTFSI_Al is reported whenever LiTFSI is requested and max_voltage
\* exceeds 3.8, LiPF6_thermal whenever LiPF6 is requested and
\* max_temperature exceeds 60, PC_graphite whenever PC is requested and the
\* anode contains graphite, high_voltage_cathode whenever one of EC, DMC,
\* EMC, DEC is requested and max_voltage exceeds 4.5; no rule contributes
\* more than one issue.
C14_RulesEvaluated ==
    prop_call # EmptyDict =>
        LET voltage == Get(prop_call.operating_conditions, "max_voltage", 420)
            temperature == Get(prop_call.operating_conditions, "max_temperature", 45)
            anode == Get(prop_call.electrode_materials, "anode", "graphite")
        IN  /\ (Requested({"LiTFSI"}) /\ voltage > 380) => Reported("LiTFSI_Al") # {}
            /\ (Requested({"LiPF6"}) /\ temperature > 60) => Reported("LiPF6_thermal") # {}
            /\ (Requested({"PC"}) /\ Contains("graphite", Lower(anode)))
                  => Reported("PC_graphite") # {}
            /\ (Requested({"EC", "DMC", "EMC", "DEC"}) /\ voltage > 450)
                  => Reported("high_voltage_cathode") # {}
            /\ \A i \in 1..Len(compatibility_rules) :
                  Cardinality(Reported(compatibility_rules[i].rule_id)) <= 1

\* ----------------------------------------------- the requirement extractor

Families == {"lithium-ion", "zinc", "sodium-ion", "magnesium", "solid-state", "aqueous"}

\* C15 as stated: the battery_type of every requirements record is one of
\* the six families.
C15_BatteryTypeIsFamily ==
    requirements # EmptyDict => requirements.battery_type \in Families

\* Every keyword by which _parse_query recognises a family.
ChemistryKeywords ==
    <<"zinc", "zn-ion", "zn ion", "zinc-ion", "aqueous zinc", "zn metal", "zn anode",
      "zinc metal", "zinc anode", "sodium", "na-ion", "na ion", "sodium-ion",
      "na metal", "magnesium", "mg-ion", "mg ion", "magnesium-ion", "mg metal",
      "solid-state", "solid state", "all-solid", "solid electrolyte",
      "polymer electrolyte", "lithium", "li-ion", "li ion", "lithium-ion", "lipf6",
      "lifsi", "aqueous", "water-based", "water based">>

\* C15, amended: the battery_type of every requirements record is one of
\* the six families or the empty string, and it is the empty string exactly
\* when the lower-cased query contains none of the chemistry keywords.
C15_BatteryTypeIsFamilyOrEmpty ==
    requirements # EmptyDict =>
        /\ requirements.battery_type \in Families \cup {""}
        /\ requirements.battery_type = "" <=> ~AnyIn(ChemistryKeywords, Lower(query))

\* A design request that names no chemistry has been analysed.
C15_Witness ==
    /\ requirements # EmptyDict
    /\ query = "design"
    /\ requirements.battery_type = ""

\* ----------------------------------------------------------- the conversion

\* The positions of the components that carry a non-empty abbreviation.
Abbreviated(formulation_list) ==
    { i \in 1..Len(formulation_list) :
        /\ "abbreviation" \in DOMAIN formulation_list[i]
        /\ formulation_list[i].abbreviation # "" }

\* C16: the mapping holds exactly the non-empty abbreviations of the list;
\* each maps to the concentration of the last component that carries it,
\* 0 when that component has no concentration.
C16_ConversionKeepsAbbreviations ==
    conv_call # EmptyDict =>
        LET list == conv_call.formulation_list
            dict == conv_call.result
        IN  /\ DOMAIN dict = { list[i].abbreviation : i \in Abbreviated(list) }
            /\ \A i \in Abbreviated(list) :
                  (\A j \in Abbreviated(list) :
                       list[j].abbreviation = list[i].abbreviation => j <= i)
                  => dict[list[i].abbreviation] =
                        (IF "concentration" \in DOMAIN list[i]
                         THEN list[i].concentration ELSE 0)

\* A list that repeats EC with two concentrations, around a component
\* without an abbreviation, has been converted.
C16_Witness ==
    /\ conv_call # EmptyDict
    /\ Len(conv_call.formulation_list) = 3
    /\ Abbreviated(conv_call.formulation_list) = {1, 3}
    /\ Get(conv_call.formulation_list[1], "concentration", 0) = 3000
    /\ Get(conv_call.formulation_list[3], "concentration", 0) = 5000
    /\ conv_call.result = ("EC" :> 5000)

\* ---------------------------------------------------- the document endpoints

Supported(filename) ==
    filename # "" /\ Lower(Suffix(filename)) \in {".pdf", ".txt", ".doc", ".docx"}

Listed(filename) ==
    filename \in Names(pending_documents) \cup Names(indexed_documents)

Specified(request) ==
    request.filenames # None /\ request.filenames.names # {}

\* C18: an index request that names files indexes exactly the pending
\* documents it names, and every other pending document stays pending, in
\* the queue's order; a request that names none indexes every pending
\* document; no request drops a document: what was pending is afterwards
\* pending or indexed, and what was indexed stays indexed.
C18_IndexMovesSelected ==
    [][response'.endpoint = "index" =>
          LET request == response'.request
              selected == IF Specified(request)
                          THEN Names(pending_documents) \cap request.filenames.names
                          ELSE Names(pending_documents)
          IN  /\ Names(pending_documents) \subseteq
                    Names(pending_documents') \cup Names(indexed_documents')
              /\ Names(indexed_documents') = Names(indexed_documents) \cup selected
              /\ pending_documents' =
                    SelectSeq(pending_documents, LAMBDA d : d.filename \notin selected)
              /\ IsPrefix(indexed_documents, indexed_documents')]_vars

\* A request naming one of two pending documents was served: the named one
\* is indexed and the other one still pending.
C18_Witness ==
    /\ response # EmptyDict
    /\ response.endpoint = "index"
    /\ response.status = "success"
    /\ Specified(response.request)
    /\ Names(indexed_documents) = {"b.txt"}
    /\ Names(pending_documents) = {"a.pdf"}

\* C19: once clear_documents has answered success, the pending queue and
\* the indexed list are empty, the document store reports a count of 0 and
\* holds no chunk a later search could return.
C19_ClearEmptiesEverything ==
    (response # EmptyDict /\ response.endpoint = "clear" /\ response.status = "success")
    => /\ pending_documents = <<>>
       /\ indexed_documents = <<>>
       /\ \A get_ok \in BOOLEAN : get_document_count(get_ok) = 0
       /\ Get(vector_store, "chunks", <<>>) = <<>>
       /\ simple_store = <<>>

\* ------------------------------------------------- the fields of the plans

SummaryFields == {"title", "priority_score", "estimated_cost", "estimated_time"}

PlannerInvoked ==
    \E i \in 1..Len(invoked) : invoked[i].agent = "experiment_planning"

\* C20: every plan the planner returns, parsed or from the templates,
\* carries title, priority_score, estimated_cost and estimated_time, and
\* neither the planner's recommendation nor the coordinator's summary
\* raises KeyError on a plan.
C20_PlansCarrySummaryFields ==
    /\ PlannerReturned =>
          \A i \in 1..Len(planning_result.experiment_plans) :
              SummaryFields \subseteq DOMAIN planning_result.experiment_plans[i]
    /\ ~(PlannerInvoked /\ pc = "raised" /\ exception = "KeyError")

\* ------------------------------------------- the predictor's baseline row

TemplateChemistries == {"zinc", "sodium-ion", "lithium-ion", "magnesium"}

\* C21: with no backend, for every plan of a chemistry that has its own
\* template table, the chemistry the predictor's fallback detects from the
\* converted formulation, and so the baseline row it uses, is the plan's
\* own battery_type.
C21_FallbackRowIsPlanChemistry ==
    ~llm_service =>
        \A i \in 1..Len(all_predictions) :
            LET plan == experiment_plans[i]
            IN  plan.battery_type \in TemplateChemistries =>
                   _detect_chemistry(_convert_formulation_to_dict(plan.formulation))
                      = plan.battery_type

\* --------------------------------------------- the predictions of the plans

\* The design route has completed and its record is ready.
DesignCompleted == pc = "done" /\ planner_input # EmptyDict

PredictionResponse == result.agent_responses[Len(result.agent_responses)]

\* What a predictor call on plan i's own formulation can return.
PredictionsFor(i) ==
    { PredictorProcess(
          [formulation |->
              _convert_formulation_to_dict(Get(result.experiment_plans[i],
                                               "formulation", <<>>)),
           battery_type |-> result.requirements_parsed.battery_type],
          llm_service, resp, variation) :
        resp \in (IF llm_service THEN PredictResponses ELSE { NoCall.resp }),
        variation \in JitterSample }

\* Every plan carries the three fields of one predictor call on its own
\* formulation, and the predictor's response lists one entry per plan, in
\* plan order, with the same values.
PlansCarryOwnPredictions ==
    LET plans == result.experiment_plans
        entries == PredictionResponse.predictions_per_plan
    IN  /\ PredictionResponse.agent_type = "performance_prediction"
        /\ Len(entries) = Len(plans)
        /\ \A i \in 1..Len(plans) :
              /\ {"predicted_performance", "prediction_confidence", "prediction_notes"}
                    \subseteq DOMAIN plans[i]
              /\ \E r \in PredictionsFor(i) :
                    /\ plans[i].predicted_performance = r.predictions
                    /\ plans[i].prediction_confidence = r.confidence_score
                    /\ plans[i].prediction_notes = r.model_notes
              /\ entries[i].plan_id = plans[i].plan_id
              /\ entries[i].predictions = plans[i].predicted_performance
              /\ entries[i].confidence_score = plans[i].prediction_confidence

ConfidenceSum == SumConfidence(PredictionResponse.predictions_per_plan)

\* C22 as stated: after the design route every plan carries the fields of
\* its own predictor call, the response lists one entry per plan in plan
\* order, and average_confidence is the mean of the confidence scores
\* (0 without plans).
C22_AverageIsExactMean ==
    DesignCompleted =>
        /\ PlansCarryOwnPredictions
        /\ Len(result.experiment_plans) * PredictionResponse.average_confidence
              = ConfidenceSum

\* C22, amended: the same, with average_confidence the mean rounded to two
\* decimals (within half a hundredth of the mean; 0 without plans).
C22_AverageIsRoundedMean ==
    DesignCompleted =>
        LET n == Len(result.experiment_plans)
            average == PredictionResponse.average_confidence
        IN  /\ PlansCarryOwnPredictions
            /\ PredictionResponse.total_plans_evaluated = n
            /\ 2 * Abs(n * average - ConfidenceSum) <= n
            /\ n = 0 => average = 0

\* Three plans were predicted with confidences whose mean is no whole
\* number of hundredths.
C22_Witness ==
    /\ DesignCompleted
    /\ Len(result.experiment_plans) = 3
    /\ ConfidenceSum = 220
    /\ PredictionResponse.average_confidence = 73

\* ---- C23

\* The chemistries in the order in which the extractor is said to prefer
\* them, each with the keywords that announce it.
chemistry_precedence == <<
    <<"zinc", <<"zinc", "zn-ion", "zn ion", "zinc-ion", "aqueous zinc", "zn metal",
                "zn anode", "zinc metal", "zinc anode">> >>,
    <<"sodium-ion", <<"sodium", "na-ion", "na ion", "sodium-ion", "na metal">> >>,
    <<"magnesium", <<"magnesium", "mg-ion", "mg ion", "magnesium-ion", "mg metal">> >>,
    <<"solid-state", <<"solid-state", "solid state", "all-solid", "solid electrolyte",
                       "polymer electrolyte">> >>,
    <<"lithium-ion", <<"lithium", "li-ion", "li ion", "lithium-ion", "lipf6", "lifsi">> >>,
    <<"aqueous", <<"aqueous", "water-based", "water based">> >> >>

Mentioned(q) ==
    { i \in 1..Len(chemistry_precedence) : AnyIn(chemistry_precedence[i][2], Lower(q)) }

FirstMentioned(q) ==
    IF Mentioned(q) = {} THEN ""
    ELSE chemistry_precedence[CHOOSE i \in Mentioned(q) :
                                 \A j \in Mentioned(q) : i <= j][1]

\* C23: the extractor resolves a query that holds keywords of several
\* chemistries by the precedence zinc, sodium-ion, magnesium, solid-state,
\* lithium-ion, aqueous, and the chemistry fixes the defaults: zinc gives
\* 1.8 V and a zinc metal anode, sodium-ion 4.0 V and hard carbon, magnesium
\* 3.0 V and magnesium metal, every other case 4.2, 4.35 or 4.5 V and a
\* graphite or silicon-graphite anode.
C23_PrecedenceAndDefaults ==
    parse_call # EmptyDict =>
        LET r == parse_call.result
            volts == r.operating_conditions.max_voltage
            anode == r.electrode_materials.anode
        IN  /\ r.battery_type = FirstMentioned(parse_call.query)
            /\ CASE r.battery_type = "zinc" -> volts = 180 /\ anode = "zinc metal"
                 [] r.battery_type = "sodium-ion" -> volts = 400 /\ anode = "hard carbon"
                 [] r.battery_type = "magnesium" -> volts = 300 /\ anode = "magnesium metal"
                 [] OTHER -> /\ volts \in {420, 435, 450}
                             /\ anode \in {"graphite", "silicon-graphite"}

\* A query naming lithium before sodium is taken for a sodium-ion one.
C23_Witness ==
    /\ parse_call # EmptyDict
    /\ parse_call.query = "lithium sodium"
    /\ Cardinality(Mentioned(parse_call.query)) = 2
    /\ parse_call.result.battery_type = "sodium-ion"
    /\ parse_call.result.operating_conditions.max_voltage = 400
    /\ parse_call.result.electrode_materials.anode = "hard carbon"

\* ---- C24

lithium_defaults == <<"EC", "EMC", "LiPF6">>

\* Nothing found: no entry of the predefined lists of the chemistry and no
\* user-specified material, in the query or in the materials field.
NothingFound(call) ==
    /\ Len(ParseComponents(call.result.battery_type, Lower(call.query))) = 0
    /\ UserMaterialSet(call.query, call.user_materials_input) = {}

\* C24: the list EC, EMC, LiPF6 is assigned exactly when the chemistry is
\* lithium-ion or undetected and nothing was found; otherwise the components
\* are what was found (and FEC for a silicon anode), so that for zinc,
\* sodium-ion, magnesium, solid-state and aqueous they may stay empty.
C24_DefaultsOnlyForLithium ==
    parse_call # EmptyDict =>
        LET r == parse_call.result
        IN  IF r.battery_type \in {"lithium-ion", ""} /\ NothingFound(parse_call)
            THEN r.components \in {lithium_defaults, Append(lithium_defaults, "FEC")}
            ELSE /\ Range(r.components) \subseteq
                       Range(ParseComponents(r.battery_type, Lower(parse_call.query)))
                       \cup UserMaterialSet(parse_call.query, parse_call.user_materials_input)
                       \cup {"FEC"}
                 /\ NothingFound(parse_call) => r.components \in {<<>>, <<"FEC">>}

\* A lithium query that names no component gets the defaults.
C24_Witness ==
    /\ parse_call # EmptyDict
    /\ parse_call.query = "lithium"
    /\ parse_call.user_materials_input = ""
    /\ NothingFound(parse_call)
    /\ parse_call.result.components = lithium_defaults

\* ---- C25

NoDuplicates(xs) ==
    \A i, j \in 1..Len(xs) : i # j => xs[i] # xs[j]

\* C25: the materials of the query text and of the materials field are
\* merged, every user-specified material is among the components (letter
\* case ignored), and no two components are equal ignoring letter case.
C25_MergedWithoutDuplicates ==
    parse_call # EmptyDict =>
        LET r == parse_call.result
            user == Get(r, "user_specified_materials", <<>>)
        IN  /\ Range(user) = UserMaterialSet(parse_call.query,
                                             parse_call.user_materials_input)
            /\ Range(MapUpper(user)) \subseteq Range(MapUpper(r.components))
            /\ NoDuplicates(MapUpper(r.components))

\* ---- C29

RequirementsFor(q, umi) ==
    { _parse_query(q, umi, order) : order \in SetOrders(UserMaterialSet(q, umi)) }

\* C26: when two requests are in flight on the one coordinator, the
\* requirements of each are extracted with the user-materials input that
\* was submitted with that same request.
C26_OwnUserMaterials ==
    \A r \in RequestIds :
        Has(requests[r], "requirements") =>
            requests[r].requirements
                \in RequirementsFor(requests[r].query, requests[r].user_materials)

\* ---- C27

\* C27: every document on the indexed list was added to the document store
\* (its processing created chunks); a document whose processing created
\* none stays in the pending queue.
C27_IndexedWereStored ==
    \A i \in 1..Len(indexed_documents) : indexed_documents[i].chunks_created > 0

\* ---- C28

FilenamesOf(documents) == [i \in 1..Len(documents) |-> documents[i].filename]

\* C28: starting from empty lists, no filename is both pending and indexed,
\* and none appears twice in the pending queue or twice in the indexed list.
C28_ListsDisjointWithoutRepeats ==
    /\ Names(pending_documents) \cap Names(indexed_documents) = {}
    /\ NoDuplicates(FilenamesOf(pending_documents))
    /\ NoDuplicates(FilenamesOf(indexed_documents))

\* Both lists hold documents and an upload of an indexed name was just
\* turned away.
C28_Witness ==
    /\ Len(pending_documents) >= 1
    /\ Len(indexed_documents) >= 1
    /\ response # EmptyDict
    /\ response.endpoint = "upload"
    /\ response.status = "already_indexed"
    /\ response.filename \in Names(indexed_documents)
    /\ response.filename \notin Names(pending_documents)

====
